---------------------------- MODULE Spec2Model ----------------------------
(***************************************************************************)
(* A model of the constexpr JSON engine of constexpr_all_the_things:       *)
(* the parser-combinator core (cx_parser.h), the JSON grammar, the sizing  *)
(* pass, the extent pass and the tree builder (cx_json_parser.h, the       *)
(* externally-sized arena variant) and the accessor layer                  *)
(* (cx_json_value.h).                                                      *)
(*                                                                         *)
(* A C++ parser is a value (a closure); here it is a record describing     *)
(* the closure, and Run applies it to an input.  An input (a string_view)  *)
(* is the sequence of the characters that remain; a character is a         *)
(* one-character string and a stored byte is its code (Ord).  A parser     *)
(* that writes captures the arena and the string buffer by reference:      *)
(* every parser takes and returns the memory m, so that what a failing     *)
(* parser wrote stays written.  A result is                                *)
(*    [st |-> "ok", val, rest, mem]    a match,                            *)
(*    [st |-> "soft", mem]             std::nullopt,                       *)
(*    [st |-> "hard", mem]             a C++ exception unwinding the parse *)
(* Numbers are exact decimals [m, e] = m / 10^e; the rounding of binary    *)
(* doubles is not modelled.                                                *)
(***************************************************************************)
EXTENDS Integers, Sequences, FiniteSets, TLC

VARIABLES
  input,     \* the characters handed to operator"" _json
  doc,       \* the value the input was rendered from, [k |-> "none"] if none
  pc,        \* "start" | "sized" | "done" | "aborted"
  szst,      \* outcome of the sizing parse: "none" | "ok" | "soft" | "hard"
  S,         \* Sizes used as the template arguments of value_wrapper
  bdst,      \* outcome of the build parse inside construct
  hw,        \* the index returned by the build parse (high-water mark)
  v,         \* object_storage: index -> value
  s,         \* string_storage: the bytes pushed so far
  wlog,      \* every write to object_storage, in order
  oob,       \* some write went to an index >= NumObjects
  cur,       \* the index of the value_proxy the caller holds
  last,      \* the last accessor call and its outcome
  nops,      \* number of accessor calls made
  lit,       \* the number literal handed to number_parser
  nres,      \* what number_parser returned for it
  par,       \* the parser applied to the input on its own, NoParser if none
  pres,      \* what that parser returned
  point,     \* the code point handed to to_utf8 and to_utf8_count
  utf8,      \* the bytes to_utf8 returned for it
  count,     \* what to_utf8_count returned for it
  remaining, \* accumulate_parse: the input s still to be read by the loop
  acc        \* accumulate_parse: the value init folded so far

vars == <<input, doc, pc, szst, S, bdst, hw, v, s, wlog, oob, cur, last,
          nops, lit, nres, par, pres, point, utf8, count, remaining, acc>>

(***************************************************************************)
(* Bounds of the model.                                                    *)
(***************************************************************************)
MaxTokens == 3    \* raw inputs are concatenations of at most this many tokens
MaxDepth == 12    \* nesting depth of the generated [[..[1]..]] documents
MaxWidth == 16    \* width of the generated [1,1,..,1] documents
MaxOps == 2       \* accessor calls made on one document
MaxFrac == 3      \* fraction digits of the number literals
MaxText == 4      \* characters of the texts handed to a combinator on its own
MaxNumText == 3   \* characters of the free texts handed to number_parser

(***************************************************************************)
(* Characters.  Ord gives the byte of each character the inputs use.       *)
(***************************************************************************)
\* the function that takes each odd entry of tab to the entry after it
Table(tab) ==
  [c \in {tab[(2 * j) - 1] : j \in 1..(Len(tab) \div 2)} |->
     tab[2 * (CHOOSE j \in 1..(Len(tab) \div 2) : tab[(2 * j) - 1] = c)]]

Ord ==
  Table(<<"\t", 9, "\n", 10, "\r", 13, " ", 32, "\"", 34, "+", 43, ",", 44,
          "-", 45, ".", 46, "/", 47, "0", 48, "1", 49, "2", 50, "3", 51,
          "4", 52, "5", 53, "6", 54, "7", 55, "8", 56, "9", 57, ":", 58,
          "A", 65, "B", 66, "C", 67, "D", 68, "E", 69, "F", 70, "[", 91,
          "\\", 92, "]", 93, "a", 97, "b", 98, "c", 99, "d", 100, "e", 101,
          "f", 102, "l", 108, "n", 110, "r", 114, "s", 115, "t", 116,
          "u", 117, "x", 120, "{", 123, "}", 125>>)

\* std::numeric_limits<std::size_t>::max(), the "no offset yet" sentinel of
\* value_recur::string_parser (the largest integer of the model checker).
SIZE_MAX == 2147483647

(***************************************************************************)
(* Parse results.                                                          *)
(***************************************************************************)
Ok(val, rest, m) == [st |-> "ok", val |-> val, rest |-> rest, mem |-> m]
Soft(m) == [st |-> "soft", mem |-> m]
Hard(m) == [st |-> "hard", mem |-> m]


(***************************************************************************)
(* Memory: the arena v (value[NumObjects]), the string buffer s            *)
(* (cx::basic_string<char, StringSize>), their capacities, and a record of *)
(* the writes made.  The arena is followed by the rest of the address      *)
(* space (a document of n characters never names an index above n), so a   *)
(* write past NumObjects is recorded in oob instead of being lost.         *)
(* Two fields belong to the evaluation and not to the program's memory:    *)
(* known, the results of the stateless parsers that were already worked    *)
(* out for a text, and pending, the arena slots whose recorded spans the   *)
(* running loops of the build have still to parse.                         *)
(***************************************************************************)
NoNumber == [m |-> 0, e |-> 0]

\* value{}: Type type = Type::Null; Data data{};
DefaultValue ==
  [type |-> "Null", unparsed |-> <<>>, offset |-> 0, extent |-> 0,
   number |-> NoNumber, boolean |-> FALSE]

Memory(len, nobj, nstr) ==
  [v |-> [i \in 0..len |-> DefaultValue], s |-> <<>>, nobj |-> nobj,
   nstr |-> nstr, log |-> <<>>, oob |-> FALSE,
   known |-> [text |-> <<>>, tab |-> <<>>], pending |-> <<>>]

\* v[i] = n for an index i of the raw array value[NObj]
Store(m, i, n) ==
  [m EXCEPT !.v = [@ EXCEPT ![i] = n],
            !.log = Append(@, [idx |-> i, type |-> n.type]),
            !.oob = @ \/ i >= m.nobj]

(***************************************************************************)
(* cx::vector<Value, Size>::push_back; the result is a function result     *)
(* [st, val, mem], "hard" when it throws std::range_error.                 *)
(***************************************************************************)
Ret(val, m) == [st |-> "ok", val |-> val, mem |-> m]
Throw(m) == [st |-> "hard", val |-> 0, mem |-> m]

push_back(m, t_v) ==
  IF Len(m.s) >= m.nstr THEN Throw(m)
  ELSE Ret(0, [m EXCEPT !.s = Append(@, t_v)])

\* cx::copy(first, last, cx::back_insert_iterator(s))
RECURSIVE copy(_, _)
copy(m, str) ==
  IF str = <<>> THEN Ret(0, m)
  ELSE LET r == push_back(m, Head(str)) IN
       IF r.st = "hard" THEN r ELSE copy(r.mem, Tail(str))

(***************************************************************************)
(* Parsers as values.  Each constructor below is the C++ function that     *)
(* returns the closure; the operator named <constructor>_call is the body  *)
(* of that closure.                                                        *)
(***************************************************************************)
fmap(f, p) == [k |-> "fmap", f |-> f, p |-> p]
bind(p, f) == [k |-> "bind", f |-> f, p |-> p]
fail(T) == [k |-> "fail"]
fail_with(T, f) == [k |-> "fail_with", f |-> f]
alt(p1, p2) == [k |-> "alt", p1 |-> p1, p2 |-> p2]
combine(p1, p2, f) == [k |-> "combine", p1 |-> p1, p2 |-> p2, f |-> f]
lt_first(p1, p2) == combine(p1, p2, [fn |-> "first"])
lt(p1, p2) == combine(p1, p2, [fn |-> "second"])
gt(p1, p2) == combine(p1, p2, [fn |-> "first"])
many(p, init, f) == [k |-> "many", p |-> p, init |-> init, f |-> f]
many1(p, init, f) == [k |-> "many1", p |-> p, init |-> init, f |-> f]
exactly_n(p, n, init, f) ==
  [k |-> "exactly_n", p |-> p, n |-> n, init |-> init, f |-> f]
option(def, p) == [k |-> "option", p |-> p, def |-> def]
\* separated_by(p1, p2, f), and separated_by(p1, p2, init, f) whose init is
\* a callable
separated_by(p1, p2, f) == [k |-> "separated_by", p1 |-> p1, p2 |-> p2, f |-> f]
separated_by_init(p1, p2, init, f) ==
  [k |-> "separated_by_init", p1 |-> p1, p2 |-> p2, init |-> init, f |-> f]
separated_by_val(p1, p2, init, f) ==
  [k |-> "separated_by_val", p1 |-> p1, p2 |-> p2, init |-> init, f |-> f]
make_char_parser(c) == [k |-> "char", c |-> c]
one_of(chars) == [k |-> "one_of", chars |-> chars]
none_of(chars) == [k |-> "none_of", chars |-> chars]
make_string_parser(str) == [k |-> "string", str |-> str]

\* init() of separated_by: [] () { return std::size_t{1}; } and the like
Call0(f, m) ==
  CASE f.fn = "one" -> Ret(1, m)
    [] f.fn = "zero" -> Ret(0, m)

RECURSIVE Run(_, _, _)
RECURSIVE Call1(_, _, _)
RECURSIVE Call2(_, _, _, _)
RECURSIVE CallBind(_, _, _, _)

(***************************************************************************)
(* sizes_recur and extent_recur have no members and their lambdas capture  *)
(* nothing: what array_parser() and object_parser() return on an input is  *)
(* a function of the input alone.  with_known works the results out for    *)
(* the suffixes of a text that start at a bracket, innermost first, and    *)
(* keeps them with the memory; the parsers below take a result from there  *)
(* when it is the result for their input.                                  *)
(***************************************************************************)
Suffix(text, at) == SubSeq(text, at, Len(text))

Brackets(text) ==
  LET n == Len(text)
      opens(at) == text[at] \in {"[", "{"}
  IN SelectSeq([j \in 1..n |-> n + 1 - j], opens)

IsKnown(p, sv, m) ==
  LET at == Len(m.known.text) - Len(sv) + 1 IN
  /\ at \in DOMAIN m.known.tab
  /\ m.known.tab[at].k = p.k
  /\ sv = Suffix(m.known.text, at)

Known(p, sv, m) ==
  LET e == m.known.tab[Len(m.known.text) - Len(sv) + 1] IN
  IF e.st = "ok" THEN Ok(e.val, e.rest, m) ELSE [st |-> e.st, mem |-> m]

\* what is kept of a result
Entry(p, r) ==
  IF r.st = "ok" THEN [k |-> p.k, st |-> "ok", val |-> r.val, rest |-> r.rest]
  ELSE [k |-> p.k, st |-> r.st]

Learn(p, at, m) ==
  [m EXCEPT !.known.tab =
     (at :> Entry(p, Run(p, Suffix(m.known.text, at), m))) @@ @]

RECURSIVE innermost_first(_, _, _, _)
innermost_first(arr, obj, ats, m) ==
  IF ats = <<>> THEN m
  ELSE innermost_first(arr, obj, Tail(ats),
                       Learn(IF m.known.text[Head(ats)] = "[" THEN arr ELSE obj,
                             Head(ats), m))

with_known(arr, obj, text, m) ==
  innermost_first(arr, obj, Brackets(text),
                  [m EXCEPT !.known = [text |-> text, tab |-> <<>>]])

fmap_call(p, i, m) ==
  LET r == Run(p.p, i, m) IN
  IF r.st # "ok" THEN r
  ELSE LET fr == Call1(p.f, r.val, r.mem) IN
       IF fr.st = "hard" THEN Hard(fr.mem) ELSE Ok(fr.val, r.rest, fr.mem)

bind_call(p, i, m) ==
  LET r == Run(p.p, i, m) IN
  IF r.st # "ok" THEN r ELSE CallBind(p.f, r.val, r.rest, r.mem)

fail_call(p, i, m) == Soft(m)

fail_with_returns(p, i, m) == Soft(m)

\* f() throws: the parse is left through the exception
fail_with_call(p, i, m) == Hard(m)

alt_call_p2_first(p, i, m) ==
  LET r2 == Run(p.p2, i, m) IN
  IF r2.st # "soft" THEN r2 ELSE Run(p.p1, i, r2.mem)

alt_call(p, i, m) ==
  LET r1 == Run(p.p1, i, m) IN
  IF r1.st # "soft" THEN r1 ELSE Run(p.p2, i, r1.mem)

combine_call(p, i, m) ==
  LET r1 == Run(p.p1, i, m) IN
  IF r1.st # "ok" THEN r1
  ELSE LET r2 == Run(p.p2, r1.rest, r1.mem) IN
       IF r2.st # "ok" THEN r2
       ELSE LET fr == Call2(p.f, r1.val, r2.val, r2.mem) IN
            IF fr.st = "hard" THEN Hard(fr.mem)
            ELSE Ok(fr.val, r2.rest, fr.mem)

RECURSIVE accumulate_parse(_, _, _, _, _)
accumulate_parse(i, p, init, f, m) ==
  LET r == Run(p, i, m)
      fr == Call2(f, init, r.val, r.mem)
  IN CASE i = <<>> -> Ok(init, i, m)
       [] r.st = "hard" -> r
       [] r.st = "soft" -> Ok(init, i, r.mem)
       [] fr.st = "hard" -> Hard(fr.mem)
       [] OTHER -> accumulate_parse(r.rest, p, fr.val, f, fr.mem)

RECURSIVE accumulate_n_parse(_, _, _, _, _, _)
accumulate_n_parse(i, p, n, init, f, m) ==
  LET r == Run(p, i, m)
      fr == Call2(f, init, r.val, r.mem)
  IN CASE n = 0 -> Ok(init, i, m)
       [] r.st = "hard" -> r
       [] r.st = "soft" -> Ok(init, i, r.mem)
       [] fr.st = "hard" -> Hard(fr.mem)
       [] OTHER -> accumulate_n_parse(r.rest, p, n - 1, fr.val, f, fr.mem)

many_call(p, i, m) == accumulate_parse(i, p.p, p.init, p.f, m)

many1_call_unchecked(p, i, m) == accumulate_parse(i, p.p, p.init, p.f, m)

many1_call(p, i, m) ==
  LET r == Run(p.p, i, m) IN
  IF r.st # "ok" THEN r
  ELSE LET fr == Call2(p.f, p.init, r.val, r.mem) IN
       IF fr.st = "hard" THEN Hard(fr.mem)
       ELSE accumulate_parse(r.rest, p.p, fr.val, p.f, fr.mem)

exactly_n_call(p, i, m) == accumulate_n_parse(i, p.p, p.n, p.init, p.f, m)

option_call(p, i, m) ==
  LET r == Run(p.p, i, m) IN
  IF r.st # "soft" THEN r ELSE Ok(p.def, i, r.mem)

separated_by_call(p, i, m) ==
  LET r == Run(p.p1, i, m) IN
  IF r.st # "ok" THEN r
  ELSE accumulate_parse(r.rest, lt(p.p2, p.p1), r.val, p.f, r.mem)

separated_by_init_fails(p, i, m) ==
  LET r == Run(p.p1, i, m) IN
  IF r.st # "ok" THEN r
  ELSE LET fr == Call2(p.f, Call0(p.init, r.mem).val, r.val, r.mem) IN
       IF fr.st = "hard" THEN Hard(fr.mem)
       ELSE accumulate_parse(r.rest, lt(p.p2, p.p1), fr.val, p.f, fr.mem)

separated_by_init_call(p, i, m) ==
  LET r == Run(p.p1, i, m) IN
  IF r.st = "hard" THEN r
  ELSE IF r.st = "soft" THEN Ok(Call0(p.init, r.mem).val, i, r.mem)
  ELSE LET fr == Call2(p.f, Call0(p.init, r.mem).val, r.val, r.mem) IN
       IF fr.st = "hard" THEN Hard(fr.mem)
       ELSE accumulate_parse(r.rest, lt(p.p2, p.p1), fr.val, p.f, fr.mem)

separated_by_val_call(p, i, m) ==
  LET r == Run(p.p1, i, m) IN
  IF r.st = "hard" THEN r
  ELSE IF r.st = "soft" THEN Ok(p.init, i, r.mem)
  ELSE LET fr == Call2(p.f, p.init, r.val, r.mem) IN
       IF fr.st = "hard" THEN Hard(fr.mem)
       ELSE accumulate_parse(r.rest, lt(p.p2, p.p1), fr.val, p.f, fr.mem)

make_char_parser_call(p, i, m) ==
  IF i = <<>> \/ Head(i) # p.c THEN Soft(m) ELSE Ok(Ord[p.c], Tail(i), m)

one_of_call(p, i, m) ==
  IF i = <<>> THEN Soft(m)
  ELSE IF Head(i) \in p.chars THEN Ok(Ord[Head(i)], Tail(i), m) ELSE Soft(m)

none_of_call(p, i, m) ==
  IF i = <<>> THEN Soft(m)
  ELSE IF Head(i) \notin p.chars THEN Ok(Ord[Head(i)], Tail(i), m) ELSE Soft(m)

\* cx::mismatch: str matches when all of it is a prefix of the input
make_string_parser_call(p, i, m) ==
  IF Len(p.str) <= Len(i) /\ SubSeq(i, 1, Len(p.str)) = p.str
  THEN Ok(p.str, SubSeq(i, Len(p.str) + 1, Len(i)), m)
  ELSE Soft(m)

Digits == {"0", "1", "2", "3", "4", "5", "6", "7", "8", "9"}

int0_parser_many == many(one_of(Digits), 0, [fn |-> "digit_acc"])

int0_parser == many1(one_of(Digits), 0, [fn |-> "digit_acc"])

int1_parser == bind(one_of(Digits \ {"0"}), [fn |-> "int1_rest"])

skip_whitespace ==
  LET ws_parser == alt(alt(alt(make_char_parser(" "), make_char_parser("\t")),
                           make_char_parser("\n")), make_char_parser("\r"))
  IN many(ws_parser, "monostate", [fn |-> "keep_first"])


(***************************************************************************)
(* Exact decimals standing for the doubles of number_parser.               *)
(***************************************************************************)
RECURSIVE Pow10(_)
Pow10(n) == IF n = 0 THEN 1 ELSE 10 * Pow10(n - 1)

RECURSIVE Norm(_)
Norm(d) ==
  IF d.m = 0 THEN NoNumber
  ELSE IF d.m % 10 = 0 THEN Norm([m |-> d.m \div 10, e |-> d.e - 1])
  ELSE d

DInt(n) == Norm([m |-> n, e |-> 0])
DAdd(x, y) ==
  LET e == IF x.e > y.e THEN x.e ELSE y.e IN
  Norm([m |-> x.m * Pow10(e - x.e) + y.m * Pow10(e - y.e), e |-> e])
DDiv10(x) == Norm([m |-> x.m, e |-> x.e + 1])
DMul10(x) == Norm([m |-> x.m, e |-> x.e - 1])

(***************************************************************************)
(* The lambdas of number_parser.                                           *)
(***************************************************************************)
\* [] (int i, int f) -> double: the digits of f, last first, pushed
\* through d += f % 10; d /= 10
RECURSIVE frac_loop(_, _)
frac_loop(d, f) ==
  IF f > 0 THEN frac_loop(DDiv10(DAdd(d, DInt(f % 10))), f \div 10) ELSE d

mantissa_value(i, f) == DAdd(DInt(i), frac_loop(NoNumber, f))

\* [] (double mantissa, int exp)
RECURSIVE scale_up(_, _)
scale_up(mantissa, exp) ==
  IF exp # 0 THEN scale_up(DMul10(mantissa), exp - 1) ELSE mantissa

RECURSIVE scale_down(_, _)
scale_down(mantissa, exp) ==
  IF exp # 0 THEN scale_down(DDiv10(mantissa), exp + 1) ELSE mantissa

exponent_value(mantissa, exp) ==
  IF exp > 0 THEN scale_up(mantissa, exp) ELSE scale_down(mantissa, exp)

number_parser ==
  LET neg_parser == option(Ord["+"], make_char_parser("-"))
      integral_parser ==
        combine(neg_parser,
                alt(fmap([fn |-> "zero"], make_char_parser("0")), int1_parser),
                [fn |-> "signed"])
      frac_parser == lt(make_char_parser("."), int0_parser)
      mantissa_parser ==
        combine(integral_parser, option(0, frac_parser), [fn |-> "mantissa"])
      e_parser == alt(make_char_parser("e"), make_char_parser("E"))
      sign_parser == alt(make_char_parser("+"), neg_parser)
      exponent_parser == bind(lt(e_parser, sign_parser), [fn |-> "exponent"])
  IN combine(mantissa_parser, option(0, exponent_parser), [fn |-> "scale"])

(***************************************************************************)
(* JSON strings.                                                           *)
(***************************************************************************)
convert_escaped_char(c) ==
  CASE c = Ord["b"] -> 8
    [] c = Ord["f"] -> 12
    [] c = Ord["n"] -> 10
    [] c = Ord["r"] -> 13
    [] c = Ord["t"] -> 9
    [] OTHER -> c

to_utf8(hexcode) ==
  IF hexcode <= 127 THEN <<hexcode>>
  ELSE IF hexcode <= 2047
    THEN <<192 + (hexcode \div 64), 128 + (hexcode % 64)>>
  ELSE IF hexcode <= 65535
    THEN <<224 + (hexcode \div 4096), 128 + ((hexcode \div 64) % 64),
           128 + (hexcode % 64)>>
  ELSE IF hexcode <= 1114111
    THEN <<240 + (hexcode \div 262144), 128 + ((hexcode \div 4096) % 64),
           128 + ((hexcode \div 64) % 64), 128 + (hexcode % 64)>>
  ELSE <<>>

to_hex_lower(c) ==
  IF c >= Ord["0"] /\ c <= Ord["9"] THEN c - Ord["0"]
  ELSE (c - Ord["a"] + 10) % 65536

to_hex(c) ==
  IF c >= Ord["0"] /\ c <= Ord["9"] THEN c - Ord["0"]
  ELSE IF c >= Ord["a"] /\ c <= Ord["f"] THEN c - Ord["a"] + 10
  ELSE (c - Ord["A"] + 10) % 65536

HexDigits == Digits \cup {"a", "b", "c", "d", "e", "f", "A", "B", "C", "D", "E", "F"}

unicode_point_parser ==
  fmap([fn |-> "to_utf8"],
       lt(lt(make_char_parser("\\"), make_char_parser("u")),
          exactly_n(one_of(HexDigits), 4, 0, [fn |-> "hex_acc"])))

special_char_parser ==
  alt(alt(alt(alt(alt(alt(alt(make_char_parser("\""), make_char_parser("\\")),
    make_char_parser("/")), make_char_parser("b")), make_char_parser("f")),
    make_char_parser("n")), make_char_parser("r")), make_char_parser("t"))

escaped_char_parser ==
  fmap([fn |-> "convert_escaped_char"],
       lt(make_char_parser("\\"), special_char_parser))

string_char_parser ==
  alt(fmap([fn |-> "char_string"],
           alt(escaped_char_parser, none_of({"\\", "\""}))),
      unicode_point_parser)

to_utf8_count_one(hexcode) == 1

to_utf8_count(hexcode) ==
  IF hexcode <= 127 THEN 1
  ELSE IF hexcode <= 2047 THEN 2
  ELSE IF hexcode <= 65535 THEN 3
  ELSE 4

unicode_point_count_parser ==
  fmap([fn |-> "to_utf8_count"],
       lt(lt(make_char_parser("\\"), make_char_parser("u")),
          exactly_n(one_of(HexDigits), 4, 0, [fn |-> "hex_acc"])))

string_char_count_parser ==
  alt(fmap([fn |-> "one"], alt(escaped_char_parser, none_of({"\\", "\""}))),
      unicode_point_count_parser)

string_size_parser ==
  gt(lt(make_char_parser("\""),
        many(string_char_count_parser, 0, [fn |-> "plus"])),
     make_char_parser("\""))


(***************************************************************************)
(* The sizing pass: sizes_recur.                                           *)
(***************************************************************************)
Sizes(num_objects, string_size) ==
  [num_objects |-> num_objects, string_size |-> string_size]

Sizes_plus_objects(x, y) ==
  Sizes(x.num_objects + y.num_objects, x.string_size)

Sizes_plus(x, y) ==
  Sizes(x.num_objects + y.num_objects, x.string_size + y.string_size)

Sizes_add_key_uncounted(sz, len) ==
  Sizes(sz.num_objects, sz.string_size + len)

\* [len] (const Sizes& s) of key_value_parser
Sizes_add_key(sz, len) ==
  Sizes(sz.num_objects + 1, sz.string_size + len)

sizes_recur_value_parser == [k |-> "sizes_recur_value_parser"]

sizes_recur_array_parser == [k |-> "sizes_recur_array_parser"]

sizes_recur_key_value_parser ==
  bind(gt(gt(lt(skip_whitespace, string_size_parser), skip_whitespace),
          make_char_parser(":")),
       [fn |-> "sizes_key_value"])

sizes_recur_object_parser == [k |-> "sizes_recur_object_parser"]

\* '[' < separated_by_val(value_parser(), skip_whitespace() < ',',
\*                        Sizes{1, 0}, std::plus<>{})
\*     > skip_whitespace() > (']' | fail(']', [] { throw "expected ]"; }))
\* with operator< and operator> unfolded: the four parsers run in turn, the
\* first that fails is the result, and the value is that of the elements.
sizes_recur_array_parser_call(p, sv, m) ==
  IF IsKnown(p, sv, m) THEN Known(p, sv, m) ELSE
  LET lb == Run(make_char_parser("["), sv, m)
      elems == Run(separated_by_val(sizes_recur_value_parser,
                                  lt(skip_whitespace, make_char_parser(",")),
                                  Sizes(1, 0), [fn |-> "Sizes_plus"]),
                 lb.rest, lb.mem)
      sp == Run(skip_whitespace, elems.rest, elems.mem)
      rb == Run(alt(make_char_parser("]"), fail_with("]", [fn |-> "throw"])),
                sp.rest, sp.mem)
  IN CASE lb.st # "ok" -> lb
       [] elems.st # "ok" -> elems
       [] sp.st # "ok" -> sp
       [] rb.st # "ok" -> rb
       [] OTHER -> Ok(elems.val, rb.rest, rb.mem)

sizes_recur_object_parser_call(p, sv, m) ==
  IF IsKnown(p, sv, m) THEN Known(p, sv, m) ELSE
  LET lb == Run(make_char_parser("{"), sv, m)
      elems == Run(separated_by_val(sizes_recur_key_value_parser,
                                  lt(skip_whitespace, make_char_parser(",")),
                                  Sizes(1, 0), [fn |-> "Sizes_plus"]),
                 lb.rest, lb.mem)
      sp == Run(skip_whitespace, elems.rest, elems.mem)
      rb == Run(alt(make_char_parser("}"), fail_with("}", [fn |-> "throw"])),
                sp.rest, sp.mem)
  IN CASE lb.st # "ok" -> lb
       [] elems.st # "ok" -> elems
       [] sp.st # "ok" -> sp
       [] rb.st # "ok" -> rb
       [] OTHER -> Ok(elems.val, rb.rest, rb.mem)

\* (skip_whitespace() < (literal | number | string | array | object))(sv)
\* with operator| unfolded: the alternatives run in turn on the same input,
\* each with the memory the one before it left, and the first that does not
\* fail softly is the result.
sizes_recur_value_parser_call(p, sv, m) ==
  LET sp == Run(skip_whitespace, sv, m)
      word == Run(fmap([fn |-> "Sizes_1_0"],
                       alt(alt(make_string_parser(<<"t", "r", "u", "e">>),
                               make_string_parser(<<"f", "a", "l", "s", "e">>)),
                           make_string_parser(<<"n", "u", "l", "l">>))),
                  sp.rest, sp.mem)
      num == Run(fmap([fn |-> "Sizes_1_0"], number_parser), sp.rest, word.mem)
      str == Run(fmap([fn |-> "Sizes_1_len"], string_size_parser),
                 sp.rest, num.mem)
      arr == Run(sizes_recur_array_parser, sp.rest, str.mem)
      obj == Run(sizes_recur_object_parser, sp.rest, arr.mem)
  IN CASE sp.st # "ok" -> sp
       [] word.st # "soft" -> word
       [] num.st # "soft" -> num
       [] str.st # "soft" -> str
       [] arr.st # "soft" -> arr
       [] OTHER -> obj

sizes_parser == sizes_recur_value_parser

(***************************************************************************)
(* The extent pass: extent_recur.                                          *)
(***************************************************************************)
extent_recur_value_parser == [k |-> "extent_recur_value_parser"]

extent_recur_array_parser == [k |-> "extent_recur_array_parser"]

extent_recur_key_value_parser ==
  lt(lt(lt(lt(skip_whitespace, string_size_parser), skip_whitespace),
        make_char_parser(":")),
     extent_recur_value_parser)

extent_recur_object_parser == [k |-> "extent_recur_object_parser"]

extent_recur_array_parser_call(p, sv, m) ==
  IF IsKnown(p, sv, m) THEN Known(p, sv, m) ELSE
  LET lb == Run(make_char_parser("["), sv, m)
      elems == Run(separated_by_val(extent_recur_value_parser,
                                  lt(skip_whitespace, make_char_parser(",")),
                                  "monostate", [fn |-> "keep_first"]),
                 lb.rest, lb.mem)
      sp == Run(skip_whitespace, elems.rest, elems.mem)
      rb == Run(make_char_parser("]"), sp.rest, sp.mem)
  IN CASE lb.st # "ok" -> lb
       [] elems.st # "ok" -> elems
       [] sp.st # "ok" -> sp
       [] rb.st # "ok" -> rb
       [] OTHER -> Ok(elems.val, rb.rest, rb.mem)

extent_recur_object_parser_call(p, sv, m) ==
  IF IsKnown(p, sv, m) THEN Known(p, sv, m) ELSE
  LET lb == Run(make_char_parser("{"), sv, m)
      elems == Run(separated_by_val(extent_recur_key_value_parser,
                                  lt(skip_whitespace, make_char_parser(",")),
                                  "monostate", [fn |-> "keep_first"]),
                 lb.rest, lb.mem)
      sp == Run(skip_whitespace, elems.rest, elems.mem)
      rb == Run(make_char_parser("}"), sp.rest, sp.mem)
  IN CASE lb.st # "ok" -> lb
       [] elems.st # "ok" -> elems
       [] sp.st # "ok" -> sp
       [] rb.st # "ok" -> rb
       [] OTHER -> Ok(elems.val, rb.rest, rb.mem)

\* auto r = (skip_whitespace() < p)(sv); if (!r) return std::nullopt;
\* the value is the part of sv that r consumed
extent_recur_value_parser_call(p, sv, m) ==
  LET sp == Run(skip_whitespace, sv, m)
      word == Run(fmap([fn |-> "monostate"],
                       alt(alt(make_string_parser(<<"t", "r", "u", "e">>),
                               make_string_parser(<<"f", "a", "l", "s", "e">>)),
                           make_string_parser(<<"n", "u", "l", "l">>))),
                  sp.rest, sp.mem)
      num == Run(fmap([fn |-> "monostate"], number_parser), sp.rest, word.mem)
      str == Run(fmap([fn |-> "monostate"], string_size_parser),
                 sp.rest, num.mem)
      arr == Run(extent_recur_array_parser, sp.rest, str.mem)
      obj == Run(extent_recur_object_parser, sp.rest, arr.mem)
      consumed(r) ==
        IF r.st # "ok" THEN r
        ELSE Ok(SubSeq(sv, 1, Len(sv) - Len(r.rest)), r.rest, r.mem)
  IN CASE sp.st # "ok" -> sp
       [] word.st # "soft" -> consumed(word)
       [] num.st # "soft" -> consumed(num)
       [] str.st # "soft" -> consumed(str)
       [] arr.st # "soft" -> consumed(arr)
       [] OTHER -> consumed(obj)

extent_parser == extent_recur_value_parser


(***************************************************************************)
(* value: the non-const to_X() members retag the node and hand out a       *)
(* reference to the payload; the const ones assert the type.               *)
(***************************************************************************)
to_Object(n) ==
  IF n.type # "Object" THEN [DefaultValue EXCEPT !.type = "Object"] ELSE n
to_Null(n) == [n EXCEPT !.type = "Null"]
to_Unparsed(n) ==
  IF n.type # "Unparsed" THEN [DefaultValue EXCEPT !.type = "Unparsed"] ELSE n
to_Array(n) ==
  IF n.type # "Array" THEN [DefaultValue EXCEPT !.type = "Array"] ELSE n
to_String(n) ==
  IF n.type # "String" THEN [DefaultValue EXCEPT !.type = "String"] ELSE n
to_Number(n) ==
  IF n.type # "Number" THEN [DefaultValue EXCEPT !.type = "Number"] ELSE n
to_Boolean(n) ==
  IF n.type # "Boolean" THEN [DefaultValue EXCEPT !.type = "Boolean"] ELSE n

ExternalView(offset, extent) == [offset |-> offset, extent |-> extent]

(***************************************************************************)
(* The tree builder: value_recur<NObj, NString>.                           *)
(***************************************************************************)
value_recur_value_parser(idx, max) ==
  [k |-> "value_recur_value_parser", idx |-> idx, max |-> max]

value_recur_array_parser(idx, max) ==
  [k |-> "value_recur_array_parser", idx |-> idx, max |-> max]

value_recur_object_parser(idx, max) ==
  [k |-> "value_recur_object_parser", idx |-> idx, max |-> max]

value_recur_string_parser ==
  gt(lt(make_char_parser("\""),
        many(string_char_parser, ExternalView(SIZE_MAX, 0),
             [fn |-> "append_string"])),
     make_char_parser("\""))

\* [&] (auto ev, const auto& str) of value_recur::string_parser
append_string(ev, str, m) ==
  LET offset == IF ev.offset = SIZE_MAX THEN Len(m.s) ELSE ev.offset
      r == copy(m, str)
  IN IF r.st = "hard" THEN r
     ELSE Ret(ExternalView(offset, ev.extent + Len(str)), r.mem)

value_recur_key_value_extent_parser ==
  bind(gt(gt(lt(skip_whitespace, value_recur_string_parser), skip_whitespace),
          make_char_parser(":")),
       [fn |-> "key_value_extent"])

\* (skip_whitespace() < (true | false | null | number | string
\*                       | ('[' < array_parser(v, s, idx, max))
\*                       | ('{' < object_parser(v, s, idx, max))))(sv)
\* with operator| unfolded as in the sizing pass; an alternative that stored
\* before it failed leaves its writes in the memory the next one starts from.
value_recur_value_parser_call(p, sv, m) ==
  LET sp == Run(skip_whitespace, sv, m)
      yes == Run(fmap([fn |-> "set_Boolean", idx |-> p.idx, max |-> p.max,
                       b |-> TRUE],
                      make_string_parser(<<"t", "r", "u", "e">>)),
                 sp.rest, sp.mem)
      no == Run(fmap([fn |-> "set_Boolean", idx |-> p.idx, max |-> p.max,
                      b |-> FALSE],
                     make_string_parser(<<"f", "a", "l", "s", "e">>)),
                sp.rest, yes.mem)
      null == Run(fmap([fn |-> "set_Null", idx |-> p.idx, max |-> p.max],
                       make_string_parser(<<"n", "u", "l", "l">>)),
                  sp.rest, no.mem)
      num == Run(fmap([fn |-> "set_Number", idx |-> p.idx, max |-> p.max],
                      number_parser),
                 sp.rest, null.mem)
      str == Run(fmap([fn |-> "set_String", idx |-> p.idx, max |-> p.max],
                      value_recur_string_parser),
                 sp.rest, num.mem)
      lb == Run(make_char_parser("["), sp.rest, str.mem)
      arr == IF lb.st # "ok" THEN lb
             ELSE Run(value_recur_array_parser(p.idx, p.max), lb.rest, lb.mem)
      lc == Run(make_char_parser("{"), sp.rest, arr.mem)
      obj == IF lc.st # "ok" THEN lc
             ELSE Run(value_recur_object_parser(p.idx, p.max), lc.rest, lc.mem)
  IN CASE sp.st # "ok" -> sp
       [] yes.st # "soft" -> yes
       [] no.st # "soft" -> no
       [] null.st # "soft" -> null
       [] num.st # "soft" -> num
       [] str.st # "soft" -> str
       [] arr.st # "soft" -> arr
       [] OTHER -> obj

\* a loop that takes the slots from the last to the first
Slots_descending(first, stop, step) ==
  [j \in 1..((stop - first + step - 1) \div step) |->
     first + (((stop - first + step - 1) \div step) - j) * step]

\* a loop that stops one slot early
Slots_but_last(first, stop, step) ==
  [j \in 1..(((stop - first + step - 1) \div step) - 1) |->
     first + (j - 1) * step]

\* the slots first, first + step, ... below stop
Slots(first, stop, step) ==
  [j \in 1..((stop - first + step - 1) \div step) |-> first + (j - 1) * step]

\* an array whose view starts right after its own node
value_recur_array_parser_call_after_self(p, sv, m) ==
  LET r == Run(gt(gt(separated_by_val(extent_parser,
                                      lt(skip_whitespace, make_char_parser(",")),
                                      p.max, [fn |-> "store_Unparsed"]),
                     skip_whitespace),
                  make_char_parser("]")),
               sv, m)
      mem1 == Store(r.mem, p.idx,
                    [to_Array(r.mem.v[p.idx]) EXCEPT
                       !.offset = p.idx + 1, !.extent = r.val - p.max])
  IN IF r.st # "ok" THEN r
     ELSE Ok(r.val, r.rest,
             [mem1 EXCEPT !.pending = Slots(p.max, r.val, 1) \o @])

\* The header of array_parser: the spans of the elements are recorded in
\* v[max..], v[idx] becomes the array, and the loop
\*   for (auto i = max; i < r->first; ++i)
\* is left to subvalues, ahead of the loops that are already running.
value_recur_array_parser_call(p, sv, m) ==
  LET r == Run(gt(gt(separated_by_val(extent_parser,
                                      lt(skip_whitespace, make_char_parser(",")),
                                      p.max, [fn |-> "store_Unparsed"]),
                     skip_whitespace),
                  make_char_parser("]")),
               sv, m)
      mem1 == Store(r.mem, p.idx,
                    [to_Array(r.mem.v[p.idx]) EXCEPT
                       !.offset = p.max, !.extent = r.val - p.max])
  IN IF r.st # "ok" THEN r
     ELSE Ok(r.val, r.rest,
             [mem1 EXCEPT !.pending = Slots(p.max, r.val, 1) \o @])

\* The header of object_parser: keys and spans are recorded in v[max..],
\* v[idx] becomes the object, and the loop
\*   for (auto i = max; i < r->first; i += 2)    (over v[i+1])
\* is left to subvalues.
value_recur_object_parser_call(p, sv, m) ==
  LET r == Run(gt(gt(separated_by_val(value_recur_key_value_extent_parser,
                                      lt(skip_whitespace, make_char_parser(",")),
                                      p.max, [fn |-> "store_member"]),
                     skip_whitespace),
                  make_char_parser("}")),
               sv, m)
      mem1 == Store(r.mem, p.idx,
                    [to_Object(r.mem.v[p.idx]) EXCEPT
                       !.offset = p.max, !.extent = r.val - p.max])
  IN IF r.st # "ok" THEN r
     ELSE Ok(r.val, r.rest,
             [mem1 EXCEPT !.pending = Slots(p.max + 1, r.val + 1, 2) \o @])

\* The body of the loops of array_parser and object_parser for the slot i:
\*   auto subr = value_parser(v, s, i, m)(v[i].to_Unparsed());
subvalue(i, m_, mem) ==
  Run(value_recur_value_parser(i, m_), to_Unparsed(mem.v[i]).unparsed,
      with_known(extent_recur_array_parser, extent_recur_object_parser,
                 to_Unparsed(mem.v[i]).unparsed,
                 [IF to_Unparsed(mem.v[i]) = mem.v[i] THEN mem
                  ELSE Store(mem, i, to_Unparsed(mem.v[i]))
                    EXCEPT !.pending = Tail(@)]))

\* The loops, r being the result so far:
\*   if (!subr) return std::nullopt;
\*   m = subr->first;
\* A loop begun by the value at i runs to its end before the loop that
\* parsed i goes on, each loop returns its m to the one around it, and a
\* failure ends them all: the slots are taken in that order, and the value
\* of r is the m of the loop that is running.
RECURSIVE subvalues(_)
subvalues(r) ==
  IF r.st # "ok" \/ r.mem.pending = <<>> THEN r
  ELSE subvalues(subvalue(Head(r.mem.pending), r.val, r.mem))

(***************************************************************************)
(* The lambdas handed to the combinators.  Call1 applies the function of   *)
(* an fmap, Call2 the fold or combining function, CallBind the             *)
(* continuation of a bind.                                                 *)
(***************************************************************************)
Call1(f, x, m) ==
  CASE f.fn = "zero" -> Ret(0, m)
    [] f.fn = "negate_if" -> Ret(IF f.sign = Ord["+"] THEN x ELSE 0 - x, m)
    [] f.fn = "convert_escaped_char" -> Ret(convert_escaped_char(x), m)
    [] f.fn = "to_utf8" -> Ret(to_utf8(x), m)
    [] f.fn = "to_utf8_count" -> Ret(to_utf8_count(x), m)
    [] f.fn = "char_string" -> Ret(<<x>>, m)
    [] f.fn = "one" -> Ret(1, m)
    [] f.fn = "monostate" -> Ret("monostate", m)
    [] f.fn = "Sizes_1_0" -> Ret(Sizes(1, 0), m)
    [] f.fn = "Sizes_1_len" -> Ret(Sizes(1, x), m)
    [] f.fn = "Sizes_add_key" -> Ret(Sizes_add_key(x, f.len), m)
    [] f.fn = "kv_extent" -> Ret([key |-> f.key, val |-> x], m)
    [] f.fn = "set_Boolean" ->
         Ret(f.max, Store(m, f.idx, [to_Boolean(m.v[f.idx]) EXCEPT !.boolean = f.b]))
    [] f.fn = "set_Null" -> Ret(f.max, Store(m, f.idx, to_Null(m.v[f.idx])))
    [] f.fn = "set_Number" ->
         Ret(f.max, Store(m, f.idx, [to_Number(m.v[f.idx]) EXCEPT !.number = x]))
    [] f.fn = "set_String" ->
         Ret(f.max, Store(m, f.idx, [to_String(m.v[f.idx]) EXCEPT
                                       !.offset = x.offset, !.extent = x.extent]))

Call2(f, a, b, m) ==
  CASE f.fn = "first" -> Ret(a, m)
    [] f.fn = "second" -> Ret(b, m)
    [] f.fn = "keep_first" -> Ret(a, m)
    [] f.fn = "plus" -> Ret(a + b, m)
    [] f.fn = "digit_acc" -> Ret((a * 10) + (b - Ord["0"]), m)
    [] f.fn = "signed" -> Ret(IF a = Ord["+"] THEN b ELSE 0 - b, m)
    [] f.fn = "mantissa" -> Ret(mantissa_value(a, b), m)
    [] f.fn = "scale" -> Ret(exponent_value(a, b), m)
    [] f.fn = "hex_acc" -> Ret(((a * 16) + to_hex(b)) % 65536, m)
    [] f.fn = "Sizes_plus" -> Ret(Sizes_plus(a, b), m)
    [] f.fn = "append_string" -> append_string(a, b, m)
    [] f.fn = "store_Unparsed" ->
         Ret(a + 1, Store(m, a, [to_Unparsed(m.v[a]) EXCEPT !.unparsed = b]))
    [] f.fn = "store_member" ->
         LET m1 == Store(m, a, [to_String(m.v[a]) EXCEPT
                                  !.offset = b.key.offset, !.extent = b.key.extent])
         IN Ret(a + 2, Store(m1, a + 1,
                             [to_Unparsed(m1.v[a + 1]) EXCEPT !.unparsed = b.val]))

CallBind(f, x, rest, m) ==
  CASE f.fn = "int1_rest" ->
         Run(many(one_of(Digits), x - Ord["0"], [fn |-> "digit_acc"]), rest, m)
    [] f.fn = "exponent" ->
         Run(fmap([fn |-> "negate_if", sign |-> x], int0_parser), rest, m)
    [] f.fn = "sizes_key_value" ->
         Run(fmap([fn |-> "Sizes_add_key", len |-> x], sizes_recur_value_parser),
             rest, m)
    [] f.fn = "key_value_extent" ->
         Run(fmap([fn |-> "kv_extent", key |-> x], extent_parser), rest, m)

(***************************************************************************)
(* Applying a parser to an input.                                          *)
(***************************************************************************)
Run(p, i, m) ==
  CASE p.k = "char" -> make_char_parser_call(p, i, m)
    [] p.k = "combine" -> combine_call(p, i, m)
    [] p.k = "alt" -> alt_call(p, i, m)
    [] p.k = "fmap" -> fmap_call(p, i, m)
    [] p.k = "many" -> many_call(p, i, m)
    [] p.k = "one_of" -> one_of_call(p, i, m)
    [] p.k = "none_of" -> none_of_call(p, i, m)
    [] p.k = "string" -> make_string_parser_call(p, i, m)
    [] p.k = "option" -> option_call(p, i, m)
    [] p.k = "bind" -> bind_call(p, i, m)
    [] p.k = "many1" -> many1_call(p, i, m)
    [] p.k = "exactly_n" -> exactly_n_call(p, i, m)
    [] p.k = "separated_by" -> separated_by_call(p, i, m)
    [] p.k = "separated_by_init" -> separated_by_init_call(p, i, m)
    [] p.k = "separated_by_val" -> separated_by_val_call(p, i, m)
    [] p.k = "fail" -> fail_call(p, i, m)
    [] p.k = "fail_with" -> fail_with_call(p, i, m)
    [] p.k = "sizes_recur_value_parser" -> sizes_recur_value_parser_call(p, i, m)
    [] p.k = "sizes_recur_array_parser" -> sizes_recur_array_parser_call(p, i, m)
    [] p.k = "sizes_recur_object_parser" -> sizes_recur_object_parser_call(p, i, m)
    [] p.k = "extent_recur_value_parser" -> extent_recur_value_parser_call(p, i, m)
    [] p.k = "extent_recur_array_parser" -> extent_recur_array_parser_call(p, i, m)
    [] p.k = "extent_recur_object_parser" -> extent_recur_object_parser_call(p, i, m)
    [] p.k = "value_recur_value_parser" -> value_recur_value_parser_call(p, i, m)
    [] p.k = "value_recur_array_parser" -> value_recur_array_parser_call(p, i, m)
    [] p.k = "value_recur_object_parser" -> value_recur_object_parser_call(p, i, m)


(***************************************************************************)
(* cx::optional<T>::operator->: no check of m_valid, the address of m_t,   *)
(* which an empty optional holds value-initialised (T m_t{}).              *)
(***************************************************************************)
optional_arrow(r, empty) == IF r.st = "ok" THEN r.val ELSE empty

(***************************************************************************)
(* The accessor layer: value_proxy<NumObjects, T, S>.  h is the proxy,     *)
(* [index, rw]; rw says that T is not const, which selects the non-const   *)
(* members of value.  A call returns                                       *)
(*   [st, msg, v, index, bool, num, bytes, size]                           *)
(* with st "ok", "throw" (std::runtime_error msg) or "ub" (the call read   *)
(* outside the arena or the string buffer: anything may follow).           *)
(***************************************************************************)
Outcome(st, msg, vv) ==
  [st |-> st, msg |-> msg, v |-> vv, index |-> 0, bool |-> FALSE,
   num |-> NoNumber, bytes |-> <<>>, size |-> 0]

Retag(n, t) ==
  CASE t = "Array" -> to_Array(n)
    [] t = "Object" -> to_Object(n)
    [] t = "String" -> to_String(n)
    [] t = "Number" -> to_Number(n)
    [] t = "Boolean" -> to_Boolean(n)

\* value::assert_type
assert_type(n, t) == n.type = t

\* object_storage[index].to_T(): the const or the non-const member
value_to(vv, nobj, index, rw, t) ==
  IF index >= nobj THEN Outcome("ub", "", vv)
  ELSE IF rw THEN Outcome("ok", "", [vv EXCEPT ![index] = Retag(@, t)])
  ELSE IF assert_type(vv[index], t) THEN Outcome("ok", "", vv)
  ELSE Outcome("throw", "Incorrect type", vv)

\* cx::static_string{&string_storage[offset], extent}
string_view_of(ss, n) ==
  IF n.extent = 0 THEN <<>> ELSE SubSeq(ss, n.offset + 1, n.offset + n.extent)

in_string_storage(ss, n) ==
  n.extent = 0 \/ (n.offset < SIZE_MAX /\ n.offset + n.extent <= Len(ss))

\* value_proxy::operator[](std::size_t idx)
array_subscript(vv, nobj, h, idx) ==
  LET a == value_to(vv, nobj, h.index, h.rw, "Array") IN
  IF a.st # "ok" THEN a
  ELSE LET ext == a.v[h.index] IN
       IF idx > ext.extent
       THEN Outcome("throw", "Index past end of array", a.v)
       ELSE [Outcome("ok", "", a.v) EXCEPT !.index = ext.offset + idx]

\* StringCompare: cx::equal over both ranges
StringCompare(k_, key) == k_ = key

\* the for loop of value_proxy::operator[](const K&)
RECURSIVE key_scan(_, _, _, _, _, _, _)

\* a scan that prefers a later member with the key to the one at i
key_scan_later(vv, ss, nobj, rw, i, stop, key) ==
  IF i >= stop THEN Outcome("throw", "Key not found in object", vv)
  ELSE LET a == value_to(vv, nobj, i, rw, "String") IN
       IF a.st # "ok" THEN a
       ELSE IF ~in_string_storage(ss, a.v[i]) THEN Outcome("ub", "", a.v)
       ELSE LET later == key_scan(a.v, ss, nobj, rw, i + 2, stop, key) IN
            IF later.st = "ok" THEN later
            ELSE IF StringCompare(string_view_of(ss, a.v[i]), key)
              THEN [Outcome("ok", "", a.v) EXCEPT !.index = i + 1]
            ELSE later

key_scan(vv, ss, nobj, rw, i, stop, key) ==
  IF i >= stop THEN Outcome("throw", "Key not found in object", vv)
  ELSE LET a == value_to(vv, nobj, i, rw, "String") IN
       IF a.st # "ok" THEN a
       ELSE IF ~in_string_storage(ss, a.v[i]) THEN Outcome("ub", "", a.v)
       ELSE IF StringCompare(string_view_of(ss, a.v[i]), key)
         THEN [Outcome("ok", "", a.v) EXCEPT !.index = i + 1]
       ELSE key_scan(a.v, ss, nobj, rw, i + 2, stop, key)

object_subscript(vv, ss, nobj, h, key) ==
  LET a == value_to(vv, nobj, h.index, h.rw, "Object") IN
  IF a.st # "ok" THEN a
  ELSE LET ext == a.v[h.index] IN
       key_scan(a.v, ss, nobj, h.rw, ext.offset, ext.offset + ext.extent, key)

\* object_Size that reports the extent, keys counted as members
proxy_object_Size_extent(vv, nobj, h) ==
  LET a == value_to(vv, nobj, h.index, FALSE, "Object") IN
  IF a.st # "ok" THEN a ELSE [a EXCEPT !.size = vv[h.index].extent]

\* value_proxy::object_Size, array_Size, string_Size: const members only
proxy_object_Size(vv, nobj, h) ==
  LET a == value_to(vv, nobj, h.index, FALSE, "Object") IN
  IF a.st # "ok" THEN a ELSE [a EXCEPT !.size = vv[h.index].extent \div 2]

proxy_array_Size(vv, nobj, h) ==
  LET a == value_to(vv, nobj, h.index, FALSE, "Array") IN
  IF a.st # "ok" THEN a ELSE [a EXCEPT !.size = vv[h.index].extent]

proxy_string_Size(vv, nobj, h) ==
  LET a == value_to(vv, nobj, h.index, FALSE, "String") IN
  IF a.st # "ok" THEN a ELSE [a EXCEPT !.size = vv[h.index].extent]

proxy_is_Null(vv, nobj, h) ==
  IF h.index >= nobj THEN Outcome("ub", "", vv)
  ELSE [Outcome("ok", "", vv) EXCEPT !.bool = (vv[h.index].type = "Null")]

proxy_to_String(vv, ss, nobj, h) ==
  LET a == value_to(vv, nobj, h.index, h.rw, "String") IN
  IF a.st # "ok" THEN a
  ELSE IF ~in_string_storage(ss, a.v[h.index]) THEN Outcome("ub", "", a.v)
  ELSE [a EXCEPT !.bytes = string_view_of(ss, a.v[h.index]),
                 !.size = a.v[h.index].extent]

proxy_to_Number(vv, nobj, h) ==
  LET a == value_to(vv, nobj, h.index, h.rw, "Number") IN
  IF a.st # "ok" THEN a ELSE [a EXCEPT !.num = a.v[h.index].number]

proxy_to_Boolean(vv, nobj, h) ==
  LET a == value_to(vv, nobj, h.index, h.rw, "Boolean") IN
  IF a.st # "ok" THEN a ELSE [a EXCEPT !.bool = a.v[h.index].boolean]

\* value_wrapper::to_Number / to_Boolean: object_storage[0] of the wrapper,
\* const exactly when the wrapper is
wrapper_to_Number(vv, nobj, isMutable) ==
  proxy_to_Number(vv, nobj, [index |-> 0, rw |-> isMutable])

wrapper_to_Boolean(vv, nobj, isMutable) ==
  proxy_to_Boolean(vv, nobj, [index |-> 0, rw |-> isMutable])


(***************************************************************************)
(* The documents and literals the model is run on.  A document is a tree   *)
(* [k, b, lit, str, items, keys]; Render writes it as JSON text.  A string *)
(* is a sequence of pieces, each the source characters of one character    *)
(* and the bytes it stands for; a number is a literal                      *)
(* [neg, int, frac, hasexp, eneg, exp] of digit sequences.                 *)
(***************************************************************************)
NoLit == [neg |-> FALSE, int |-> <<0>>, frac |-> <<>>, hasexp |-> FALSE,
          eneg |-> FALSE, exp |-> <<>>]

Tree(k, b, l, str, items, keys) ==
  [k |-> k, b |-> b, lit |-> l, str |-> str, items |-> items, keys |-> keys]

NoDoc == Tree("none", FALSE, NoLit, <<>>, <<>>, <<>>)
TBool(b) == Tree("bool", b, NoLit, <<>>, <<>>, <<>>)
TNull == Tree("null", FALSE, NoLit, <<>>, <<>>, <<>>)
TNum(l) == Tree("num", FALSE, l, <<>>, <<>>, <<>>)
TStr(str) == Tree("str", FALSE, NoLit, str, <<>>, <<>>)
TArr(items) == Tree("arr", FALSE, NoLit, <<>>, items, <<>>)
TObj(keys, items) == Tree("obj", FALSE, NoLit, <<>>, items, keys)

Piece(src, bytes) == [src |-> src, bytes |-> bytes]
PieceA == Piece(<<"a">>, <<97>>)
PieceB == Piece(<<"b">>, <<98>>)
PieceNewline == Piece(<<"\\", "n">>, <<10>>)
PieceQuote == Piece(<<"\\", "\"">>, <<34>>)
PieceEAcute == Piece(<<"\\", "u", "0", "0", "e", "9">>, <<195, 169>>)
PieceSnowman == Piece(<<"\\", "u", "2", "6", "0", "3">>, <<226, 152, 131>>)

RECURSIVE Flatten(_)
Flatten(ss) == IF ss = <<>> THEN <<>> ELSE Head(ss) \o Flatten(Tail(ss))

StrSource(str) == Flatten([j \in 1..Len(str) |-> str[j].src])
StrBytes(str) == Flatten([j \in 1..Len(str) |-> str[j].bytes])

DigitChar == <<"0", "1", "2", "3", "4", "5", "6", "7", "8", "9">>
DigitChars(ds) == [j \in 1..Len(ds) |-> DigitChar[ds[j] + 1]]

RenderNumber(l) ==
  (IF l.neg THEN <<"-">> ELSE <<>>) \o DigitChars(l.int)
  \o (IF l.frac = <<>> THEN <<>> ELSE <<".">> \o DigitChars(l.frac))
  \o (IF l.hasexp
      THEN <<"e">> \o (IF l.eneg THEN <<"-">> ELSE <<>>) \o DigitChars(l.exp)
      ELSE <<>>)

RECURSIVE Render(_)
RECURSIVE RenderItems(_, _, _)
RenderItems(t, j, sep) ==
  IF j > Len(t.items) THEN <<>>
  ELSE (IF j > 1 THEN sep ELSE <<>>)
       \o (IF t.k = "obj"
           THEN <<"\"">> \o StrSource(t.keys[j]) \o <<"\"", ":">>
           ELSE <<>>)
       \o Render(t.items[j]) \o RenderItems(t, j + 1, sep)
Render(t) ==
  CASE t.k = "bool" -> IF t.b THEN <<"t", "r", "u", "e">>
                       ELSE <<"f", "a", "l", "s", "e">>
    [] t.k = "null" -> <<"n", "u", "l", "l">>
    [] t.k = "num" -> RenderNumber(t.lit)
    [] t.k = "str" -> <<"\"">> \o StrSource(t.str) \o <<"\"">>
    [] t.k = "arr" -> <<"[">> \o RenderItems(t, 1, <<",">>) \o <<"]">>
    [] t.k = "obj" -> <<"{">> \o RenderItems(t, 1, <<",", " ">>) \o <<"}">>

\* the value a number literal denotes: every digit weighted by its position
RECURSIVE DigitsValue(_)
DigitsValue(ds) ==
  IF ds = <<>> THEN 0
  ELSE DigitsValue(SubSeq(ds, 1, Len(ds) - 1)) * 10 + ds[Len(ds)]

Unsigned(l) ==
  LET e == Len(l.frac) + (IF l.eneg THEN DigitsValue(l.exp) ELSE 0 - DigitsValue(l.exp))
      n == DigitsValue(l.int) * Pow10(Len(l.frac)) + DigitsValue(l.frac)
  IN Norm([m |-> n, e |-> e])

LiteralValue(l) ==
  LET u == Unsigned(l) IN IF l.neg THEN [u EXCEPT !.m = 0 - @] ELSE u

Lit(neg, int, frac) ==
  [neg |-> neg, int |-> int, frac |-> frac, hasexp |-> FALSE, eneg |-> FALSE,
   exp |-> <<>>]


One == Lit(FALSE, <<1>>, <<>>)
Two == Lit(FALSE, <<2>>, <<>>)

Scalars ==
  {TBool(TRUE), TBool(FALSE), TNull, TNum(One), TNum(Lit(FALSE, <<0>>, <<>>)),
   TNum(Lit(TRUE, <<1, 2>>, <<>>)), TNum(Lit(FALSE, <<1>>, <<5>>)),
   TNum(Lit(FALSE, <<0>>, <<0, 5>>)), TNum(Lit(TRUE, <<0>>, <<5>>)),
   TStr(<<>>), TStr(<<PieceA>>), TStr(<<PieceA, PieceB>>),
   TStr(<<PieceNewline, PieceQuote>>), TStr(<<PieceEAcute>>),
   TStr(<<PieceA, PieceSnowman>>)}

Leaves == {TBool(TRUE), TNull, TNum(One), TStr(<<PieceA>>), TStr(<<>>)}
MemberKeys == {<<PieceA>>, <<PieceB>>, <<>>}
MemberValues == {TNum(One), TBool(TRUE), TStr(<<PieceA>>)}

Arrays == {TArr(items) : items \in UNION {[1..n -> Leaves] : n \in 0..2}}

Objects ==
  {TObj([j \in 1..Len(ms) |-> ms[j][1]], [j \in 1..Len(ms) |-> ms[j][2]]) :
     ms \in UNION {[1..n -> MemberKeys \X MemberValues] : n \in 0..2}}

Nested ==
  UNION {{TArr(<<TArr(<<x>>)>>), TArr(<<TArr(<<x>>), x>>),
          TArr(<<TObj(<<<<PieceA>>>>, <<x>>)>>),
          TObj(<<<<PieceA>>>>, <<TArr(<<x>>)>>),
          TObj(<<<<PieceA>>>>, <<TObj(<<<<PieceB>>>>, <<x>>)>>)} : x \in Leaves}
  \cup {TObj(<<<<PieceA>>, <<PieceB>>, <<PieceA, PieceB>>>>,
             <<TNum(One), TBool(TRUE), TArr(<<TStr(<<PieceA, PieceB>>)>>)>>),
        TArr(<<TNum(One), TArr(<<TBool(TRUE), TBool(FALSE)>>),
               TArr(<<TNum(Two), TNum(One)>>)>>)}

\* [[...[1]...]], d arrays deep
RECURSIVE Deep(_)
Deep(d) == IF d = 0 THEN TNum(One) ELSE TArr(<<Deep(d - 1)>>)

\* [1,true,1,true,...], w elements wide
Wide(w) == TArr([j \in 1..w |-> IF j % 2 = 1 THEN TNum(One) ELSE TBool(TRUE)])

Docs ==
  Scalars \cup Arrays \cup Objects \cup Nested
  \cup {Deep(d) : d \in 1..MaxDepth} \cup {Wide(w) : w \in 1..MaxWidth}

Tokens ==
  {<<"[">>, <<"]">>, <<"{">>, <<"}">>, <<",">>, <<":">>, <<" ">>, <<"1">>,
   <<"\"", "a", "\"">>, <<"\"">>, <<"t", "r", "u", "e">>, <<"x">>}

RawInputs ==
  {Flatten(ts) : ts \in UNION {[1..n -> Tokens] : n \in 0..MaxTokens}}

\* the inputs of fail_tests
Malformed ==
  {<<"{">>, <<"[">>, <<"{", "\"", "a", "\"">>, <<"{", "1">>,
   <<"{", "\"", "a", "\"", ":", "1">>, <<"[", "1", ",", "]">>}

\* a complete value followed by more: true x, [1] false, 1], {"a":1},1, ...
FirstValues ==
  {TBool(TRUE), TNum(One), TStr(<<PieceA>>), TArr(<<TNum(One)>>),
   TObj(<<<<PieceA>>>>, <<TNum(One)>>)}

Tails ==
  {<<" ", "x">>, <<" ", "f", "a", "l", "s", "e">>, <<"]">>, <<",", "1">>}

Trailed ==
  {[text |-> Render(t) \o tail, doc |-> t] : t \in FirstValues, tail \in Tails}

Inputs ==
  {[text |-> Render(t), doc |-> t] : t \in Docs}
  \cup {[text |-> r, doc |-> NoDoc] : r \in RawInputs \cup Malformed}
  \cup Trailed

IndexArgs == 0..3
KeyArgs == {<<97>>, <<98>>, <<>>}

(***************************************************************************)
(* The program: operator"" _json is sizes<Ts...>() followed by             *)
(* value_wrapper<S.num_objects, S.string_size>::construct; the caller then *)
(* navigates the returned document.                                        *)
(***************************************************************************)
NoCall ==
  [op |-> "none", arg |-> 0, key |-> <<>>, from |-> 0, rw |-> FALSE,
   pretype |-> "none", st |-> "none", msg |-> "", index |-> 0,
   bool |-> FALSE, num |-> NoNumber, bytes |-> <<>>, size |-> 0]

NoResult == [st |-> "none", val |-> NoNumber, rest |-> <<>>]

NoParser == [k |-> "none"]
NoOutcome == [st |-> "none", val |-> 0, rest |-> <<>>]

Init ==
  /\ \E inp \in Inputs : input = inp.text /\ doc = inp.doc
  /\ pc = "start"
  /\ szst = "none"
  /\ S = Sizes(0, 0)
  /\ bdst = "none"
  /\ hw = 0
  /\ v = <<>>
  /\ s = <<>>
  /\ wlog = <<>>
  /\ oob = FALSE
  /\ cur = 0
  /\ last = NoCall
  /\ nops = 0
  /\ lit = NoLit
  /\ nres = NoResult
  /\ par = NoParser
  /\ pres = NoOutcome
  /\ point = 0
  /\ utf8 = <<>>
  /\ count = 0
  /\ remaining = <<>>
  /\ acc = 0

\* sizes_parser()(input)
sizes_parse(text) ==
  Run(sizes_parser, text,
      with_known(sizes_recur_array_parser, sizes_recur_object_parser, text,
                 Memory(Len(text), 0, 0)))

\* a sizing that takes only a result that consumed the whole input
sizes_first_whole(r) ==
  [st |-> IF r.st = "ok" /\ r.rest # <<>> THEN "soft" ELSE r.st,
   val |-> IF r.rest # <<>> THEN Sizes(0, 0)
           ELSE optional_arrow(r, Sizes(0, 0))]

\* sizes<Cs...>(): sizes_parser()(input)->first
sizes_first(r) == [st |-> r.st, val |-> optional_arrow(r, Sizes(0, 0))]

sizes(text) == sizes_first(sizes_parse(text))

SizesCall ==
  /\ pc = "start"
  /\ \E r \in {sizes(input)} :
       /\ szst' = r.st
       /\ S' = r.val
       /\ pc' = IF r.st = "hard" THEN "aborted" ELSE "sized"
  /\ UNCHANGED <<input, doc, bdst, hw, v, s, wlog, oob, cur, last, nops,
                 lit, nres, par, pres, point, utf8, count, remaining,
                 acc>>

\* value_wrapper::construct: the result of the parse is dropped.  A write
\* outside the arena is undefined, and value object_storage[0] is a
\* zero-length array that a build may refuse: either ends the program or
\* lets it go on.
construct(text, nobj, nstr) ==
  subvalues(Run(value_recur_value_parser(0, 1), text,
                with_known(extent_recur_array_parser,
                           extent_recur_object_parser, text,
                           Memory(Len(text), nobj, nstr))))

Construct ==
  /\ pc = "sized"
  /\ \E r \in {construct(input, S.num_objects, S.string_size)} :
       /\ bdst' = r.st
       /\ hw' = IF r.st = "ok" THEN r.val ELSE 0
       /\ v' = r.mem.v
       /\ s' = r.mem.s
       /\ wlog' = r.mem.log
       /\ oob' = r.mem.oob
       /\ pc' \in IF r.st = "hard" THEN {"aborted"}
                  ELSE IF r.mem.oob \/ S.num_objects = 0
                    THEN {"done", "aborted"}
                  ELSE {"done"}
  /\ UNCHANGED <<input, doc, szst, S, cur, last, nops, lit, nres,
                 par, pres, point, utf8, count, remaining,
                 acc>>


\* the caller makes one accessor call on a document of Docs, through the
\* proxy h = value_proxy{cur, object_storage, string_storage} over const
\* (rw = FALSE) or non-const storage; a proxy returned by operator[]
\* replaces the one held
Handle(rw) == [index |-> cur, rw |-> rw]

Called(op, h, arg, key, out) ==
  /\ pc = "done"
  /\ doc # NoDoc
  /\ nops < MaxOps
  /\ nops' = nops + 1
  /\ v' = out.v
  /\ cur' = IF out.st = "ok" /\ op \in {"index", "key"} THEN out.index ELSE cur
  /\ last' = [op |-> op, arg |-> arg, key |-> key, from |-> h.index,
              rw |-> h.rw,
              pretype |-> IF h.index < S.num_objects THEN v[h.index].type
                          ELSE "outside",
              st |-> out.st, msg |-> out.msg, index |-> out.index,
              bool |-> out.bool, num |-> out.num, bytes |-> out.bytes,
              size |-> out.size]
  /\ UNCHANGED <<input, doc, pc, szst, S, bdst, hw, s, wlog, oob, lit, nres,
                 par, pres, point, utf8, count, remaining,
                 acc>>

Subscript ==
  \E idx \in IndexArgs, rw \in BOOLEAN :
    Called("index", Handle(rw), idx, <<>>,
           array_subscript(v, S.num_objects, Handle(rw), idx))

Lookup ==
  \E key \in KeyArgs, rw \in BOOLEAN :
    Called("key", Handle(rw), 0, key,
           object_subscript(v, s, S.num_objects, Handle(rw), key))

ObjectSize ==
  Called("object_Size", Handle(FALSE), 0, <<>>,
         proxy_object_Size(v, S.num_objects, Handle(FALSE)))

ArraySize ==
  Called("array_Size", Handle(FALSE), 0, <<>>,
         proxy_array_Size(v, S.num_objects, Handle(FALSE)))

StringSize ==
  Called("string_Size", Handle(FALSE), 0, <<>>,
         proxy_string_Size(v, S.num_objects, Handle(FALSE)))

IsNull ==
  Called("is_Null", Handle(FALSE), 0, <<>>,
         proxy_is_Null(v, S.num_objects, Handle(FALSE)))

ToStringOp ==
  \E rw \in BOOLEAN :
    Called("to_String", Handle(rw), 0, <<>>,
           proxy_to_String(v, s, S.num_objects, Handle(rw)))

ToNumberOp ==
  \E rw \in BOOLEAN :
    Called("to_Number", Handle(rw), 0, <<>>,
           proxy_to_Number(v, S.num_objects, Handle(rw)))

ToBooleanOp ==
  \E rw \in BOOLEAN :
    Called("to_Boolean", Handle(rw), 0, <<>>,
           proxy_to_Boolean(v, S.num_objects, Handle(rw)))

\* on the value_wrapper itself, const or not
WrapperToNumber ==
  \E rw \in BOOLEAN :
    Called("wrapper.to_Number", [index |-> 0, rw |-> rw], 0, <<>>,
           wrapper_to_Number(v, S.num_objects, rw))

WrapperToBoolean ==
  \E rw \in BOOLEAN :
    Called("wrapper.to_Boolean", [index |-> 0, rw |-> rw], 0, <<>>,
           wrapper_to_Boolean(v, S.num_objects, rw))

Next ==
  \/ SizesCall
  \/ Construct
  \/ Subscript
  \/ Lookup
  \/ ObjectSize
  \/ ArraySize
  \/ StringSize
  \/ IsNull
  \/ ToStringOp
  \/ ToNumberOp
  \/ ToBooleanOp
  \/ WrapperToNumber
  \/ WrapperToBoolean

Spec == Init /\ [][Next]_vars

(***************************************************************************)
(* number_parser on its own: a literal is drawn, written out as text and   *)
(* parsed.                                                                 *)
(***************************************************************************)
FracDigits == {0, 1, 5}
Fractions == UNION {[1..n -> FracDigits] : n \in 0..MaxFrac}
Exponents ==
  {[hasexp |-> FALSE, eneg |-> FALSE, exp |-> <<>>]}
  \cup {[hasexp |-> TRUE, eneg |-> g, exp |-> <<d>>] : g \in BOOLEAN, d \in 1..2}

Literals ==
  {[neg |-> n, int |-> i, frac |-> f, hasexp |-> x.hasexp, eneg |-> x.eneg,
    exp |-> x.exp] :
     n \in BOOLEAN, i \in {<<0>>, <<7>>, <<1, 2>>}, f \in Fractions,
     x \in Exponents}

InitNumber ==
  /\ lit \in Literals
  /\ input = RenderNumber(lit)
  /\ doc = TNum(lit)
  /\ pc = "number"
  /\ szst = "none"
  /\ S = Sizes(0, 0)
  /\ bdst = "none"
  /\ hw = 0
  /\ v = <<>>
  /\ s = <<>>
  /\ wlog = <<>>
  /\ oob = FALSE
  /\ cur = 0
  /\ last = NoCall
  /\ nops = 0
  /\ nres = NoResult
  /\ par = NoParser
  /\ pres = NoOutcome
  /\ point = 0
  /\ utf8 = <<>>
  /\ count = 0
  /\ remaining = <<>>
  /\ acc = 0

ParseNumber ==
  /\ pc = "number"
  /\ LET r == Run(number_parser, input, Memory(0, 0, 0)) IN
       nres' = IF r.st = "ok"
               THEN [st |-> "ok", val |-> r.val, rest |-> r.rest]
               ELSE [st |-> r.st, val |-> NoNumber, rest |-> input]
  /\ pc' = "parsed"
  /\ UNCHANGED <<input, doc, szst, S, bdst, hw, v, s, wlog, oob, cur, last,
                 nops, lit, par, pres, point, utf8, count, remaining,
                 acc>>

NextNumber == ParseNumber

SpecNumber == InitNumber /\ [][NextNumber]_vars

(***************************************************************************)
(* A parser on its own: a parser and a text are drawn and the parser is    *)
(* applied to the text, as the static_asserts of the tests do.             *)
(***************************************************************************)
TextsOver(alphabet, len) == UNION {[1..n -> alphabet] : n \in 0..len}

\* number_parser on the texts over the characters of a number, and on
\* written-out literals followed by what may or may not continue them
NumberTails ==
  {<<>>, <<".">>, <<"e">>, <<"E", "-">>, <<"0">>, <<".", "5">>, <<"e", "1">>,
   <<",">>}

NumberTexts ==
  TextsOver({"-", "+", "0", "7", ".", "e", "E"}, MaxNumText)
  \cup {RenderNumber(l) \o tl :
          l \in {x \in Literals : Len(x.frac) <= 1}, tl \in NumberTails}

\* unicode_point_parser on \u followed by up to four hex digits, at the
\* end of the text or before a closing quote
UnicodeDigits == {"0", "2", "3", "6", "7", "8", "a", "F"}

UnicodeTexts ==
  {<<"\\", "u">> \o ds \o tl :
     ds \in UNION {[1..n -> UnicodeDigits] : n \in 0..4},
     tl \in {<<>>, <<"\"">>}}

\* the combinators on the texts over a, b and the comma
Texts == TextsOver({"a", "b", ","}, MaxText)

Units == {make_char_parser("a"), make_char_parser("b"), one_of({"a", "b"})}

Folds == {[fn |-> "plus"], [fn |-> "digit_acc"]}

Exactly == {exactly_n(p, n, 0, f) : p \in Units, n \in 0..3, f \in Folds}

Words ==
  {make_string_parser(<<"a">>), make_string_parser(<<"a", "b">>),
   make_string_parser(<<"b">>)}

\* fail(T{}) and fail(T{}, [] { throw ..; })
Failing(T) == {fail(T), fail_with(T, [fn |-> "throw"])}

\* p1 | p2 wants both parsers to return the same type
Alternatives ==
  {alt(p1, p2) : p1 \in Units \cup Failing("a"), p2 \in Units \cup Failing("a")}
  \cup {alt(p1, p2) :
          p1 \in Words \cup Failing(<<>>), p2 \in Words \cup Failing(<<>>)}

\* p1 < p2 and p1 > p2
Steps == Units \cup {fail("a")}

Sequenced == UNION {{lt(p1, p2), gt(p1, p2)} : p1 \in Steps, p2 \in Steps}

Repetitions ==
  UNION {{many(p, init, f), many1(p, init, f)} :
           p \in Steps, init \in {0, 1}, f \in Folds}

\* the three forms of separated_by, with the comma between the items
Separated ==
  UNION {{separated_by(p, make_char_parser(","), f)}
         \cup {separated_by_init(p, make_char_parser(","), [fn |-> g], f) :
                 g \in {"zero", "one"}}
         \cup {separated_by_val(p, make_char_parser(","), init, f) :
                 init \in {0, 1}} :
           p \in {make_char_parser("a"), one_of({"a", "b"})}, f \in Folds}

Combinators ==
  Exactly \cup Alternatives \cup Sequenced \cup Repetitions \cup Separated

\* the parsers of the build pass, writing to v from index 0 with max 1, on
\* the raw inputs
Builders ==
  {value_recur_string_parser, value_recur_key_value_extent_parser,
   value_recur_array_parser(0, 1), value_recur_object_parser(0, 1),
   value_recur_value_parser(0, 1)}

\* storage no text can outgrow
Arena(text) == Memory(Len(text) + 1, Len(text) + 1, Len(text) + 1)

InitParser ==
  /\ \/ par = number_parser /\ input \in NumberTexts
     \/ par = unicode_point_parser /\ input \in UnicodeTexts
     \/ par \in Combinators /\ input \in Texts
     \/ par \in Builders /\ input \in RawInputs \cup Malformed
  /\ pres = NoOutcome
  /\ point = 0
  /\ utf8 = <<>>
  /\ count = 0
  /\ remaining = <<>>
  /\ acc = 0
  /\ doc = NoDoc
  /\ pc = "apply"
  /\ szst = "none"
  /\ S = Sizes(0, 0)
  /\ bdst = "none"
  /\ hw = 0
  /\ v = <<>>
  /\ s = <<>>
  /\ wlog = <<>>
  /\ oob = FALSE
  /\ cur = 0
  /\ last = NoCall
  /\ nops = 0
  /\ lit = NoLit
  /\ nres = NoResult

\* what the caller of a parser sees of its result
Returned(r) ==
  IF r.st = "ok" THEN [st |-> "ok", val |-> r.val, rest |-> r.rest]
  ELSE [NoOutcome EXCEPT !.st = r.st]

\* the parser is applied; the loops over the slots an array_parser or
\* object_parser reserved run before it returns, and what it wrote to the
\* storage it captured stays written
Apply ==
  /\ pc = "apply"
  /\ \E h \in {Run(par, input, Arena(input))} :
       \E r \in {subvalues(h)} :
         /\ pres' = IF r.st = "ok" THEN Returned([r EXCEPT !.rest = h.rest])
                    ELSE Returned(r)
         /\ v' = r.mem.v
         /\ s' = r.mem.s
         /\ wlog' = r.mem.log
  /\ pc' = "applied"
  /\ UNCHANGED <<input, doc, szst, S, bdst, hw, oob, cur, last, nops, lit,
                 nres, par, point, utf8, count, remaining,
                 acc>>

NextParser == Apply

SpecParser == InitParser /\ [][NextParser]_vars

(***************************************************************************)
(* to_utf8 and to_utf8_count on their own: both take a uint32_t, and each  *)
(* is applied to the same code point, drawn from the values around the     *)
(* powers of two and around the last code point 0x10FFFF.                  *)
(***************************************************************************)
MaxSpread == 2

CodePoints ==
  {c \in {2 ^ k + d : k \in 0..30, d \in (-MaxSpread)..MaxSpread}
         \cup {1114111 + d : d \in (-MaxSpread)..MaxSpread} : c >= 0}

InitUtf8 ==
  /\ point \in CodePoints
  /\ pc = "to_utf8"
  /\ input = <<>>
  /\ doc = NoDoc
  /\ szst = "none"
  /\ S = Sizes(0, 0)
  /\ bdst = "none"
  /\ hw = 0
  /\ v = <<>>
  /\ s = <<>>
  /\ wlog = <<>>
  /\ oob = FALSE
  /\ cur = 0
  /\ last = NoCall
  /\ nops = 0
  /\ lit = NoLit
  /\ nres = NoResult
  /\ par = NoParser
  /\ pres = NoOutcome
  /\ utf8 = <<>>
  /\ count = 0
  /\ remaining = <<>>
  /\ acc = 0

\* to_utf8(hexcode)
Encode ==
  /\ pc = "to_utf8"
  /\ utf8' = to_utf8(point)
  /\ pc' = "to_utf8_count"
  /\ UNCHANGED <<input, doc, szst, S, bdst, hw, v, s, wlog, oob, cur, last,
                 nops, lit, nres, par, pres, point, count, remaining, acc>>

\* to_utf8_count(hexcode)
Count ==
  /\ pc = "to_utf8_count"
  /\ count' = to_utf8_count(point)
  /\ pc' = "counted"
  /\ UNCHANGED <<input, doc, szst, S, bdst, hw, v, s, wlog, oob, cur, last,
                 nops, lit, nres, par, pres, point, utf8, remaining, acc>>

NextUtf8 == Encode \/ Count

SpecUtf8 == InitUtf8 /\ [][NextUtf8]_vars

(***************************************************************************)
(* The loops of the grammar, one iteration of detail::accumulate_parse at  *)
(* a step.  par is the many, many1 or separated_by_val that runs the loop, *)
(* remaining and acc are the s and init of accumulate_parse, and v, s and  *)
(* wlog are the storage the lambdas of the build pass write to.            *)
(***************************************************************************)
Separator == lt(skip_whitespace, make_char_parser(","))

GrammarLoops ==
  {skip_whitespace, int0_parser,
   many(string_char_count_parser, 0, [fn |-> "plus"]),
   many(string_char_parser, ExternalView(SIZE_MAX, 0),
        [fn |-> "append_string"]),
   separated_by_val(sizes_recur_value_parser, Separator, Sizes(1, 0),
                    [fn |-> "Sizes_plus"]),
   separated_by_val(sizes_recur_key_value_parser, Separator, Sizes(1, 0),
                    [fn |-> "Sizes_plus"]),
   separated_by_val(extent_recur_value_parser, Separator, "monostate",
                    [fn |-> "keep_first"]),
   separated_by_val(extent_recur_key_value_parser, Separator, "monostate",
                    [fn |-> "keep_first"]),
   separated_by_val(extent_parser, Separator, 1, [fn |-> "store_Unparsed"]),
   separated_by_val(value_recur_key_value_extent_parser, Separator, 1,
                    [fn |-> "store_member"])}

\* what follows the [ or { of a container of several elements
LongTexts ==
  {<<"1", ",", "1", ",", "1", "]">>,
   <<"1", " ", ",", "[", "1", "]", ",", " ", "t", "r", "u", "e", "]">>,
   <<"[", "[", "1", "]", "]", ",", "[", "]", ",", "1">>,
   <<"\"", "a", "\"", ":", "1", ",", "\"", "a", "\"", ":", "[", "1", "]",
     ",", "\"", "\"", ":", "1", "}">>,
   <<"1", ",", "1", ",">>,
   <<" ", " ", "\t", "\n", "\r", "1">>,
   <<"1", "2", "3", "4", "x">>,
   <<"a", "\\", "n", "\\", "u", "0", "0", "e", "9", "b", "\"">>}

MaxLoopTokens == 2

LoopTexts ==
  {Flatten(ts) : ts \in UNION {[1..n -> Tokens] : n \in 0..MaxLoopTokens}}
  \cup LongTexts

\* the storage as the loop finds it
LoopMemory == [Arena(input) EXCEPT !.v = v, !.s = s, !.log = wlog]

\* const auto p = p2 < p1; of separated_by_val, p itself of many and many1
LoopBody(p) == IF p.k = "separated_by_val" THEN lt(p.p2, p.p1) ELSE p.p

InitLoop ==
  /\ par \in GrammarLoops
  /\ input \in LoopTexts
  /\ pc = "enter"
  /\ remaining = input
  /\ acc = par.init
  /\ v = Arena(input).v
  /\ s = <<>>
  /\ wlog = <<>>
  /\ pres = [NoOutcome EXCEPT !.val = par.init]
  /\ doc = NoDoc
  /\ szst = "none"
  /\ S = Sizes(0, 0)
  /\ bdst = "none"
  /\ hw = 0
  /\ oob = FALSE
  /\ cur = 0
  /\ last = NoCall
  /\ nops = 0
  /\ lit = NoLit
  /\ nres = NoResult
  /\ point = 0
  /\ utf8 = <<>>
  /\ count = 0

\* a loop that keeps the input it had
Continue_same_input(fr, left) ==
  /\ pc' = IF fr.st = "hard" THEN "returned" ELSE "loop"
  /\ pres' = IF fr.st = "hard" THEN [pres EXCEPT !.st = "hard"] ELSE pres
  /\ acc' = IF fr.st = "hard" THEN acc ELSE fr.val
  /\ remaining' = remaining
  /\ v' = fr.mem.v
  /\ s' = fr.mem.s
  /\ wlog' = fr.mem.log

\* init = f(init, r->first); s = r->second;
Continue(fr, left) ==
  /\ pc' = IF fr.st = "hard" THEN "returned" ELSE "loop"
  /\ pres' = IF fr.st = "hard" THEN [pres EXCEPT !.st = "hard"] ELSE pres
  /\ acc' = IF fr.st = "hard" THEN acc ELSE fr.val
  /\ remaining' = IF fr.st = "hard" THEN remaining ELSE left
  /\ v' = fr.mem.v
  /\ s' = fr.mem.s
  /\ wlog' = fr.mem.log

\* the parser returns r
Leave(r) ==
  /\ pc' = "returned"
  /\ pres' = IF r.st = "ok" THEN Returned(r) ELSE [pres EXCEPT !.st = r.st]
  /\ v' = r.mem.v
  /\ s' = r.mem.s
  /\ wlog' = r.mem.log
  /\ UNCHANGED <<acc, remaining>>

\* what many, many1 and separated_by_val do before accumulate_parse: many
\* nothing, many1 and separated_by_val the first application of the parser
Enter ==
  /\ pc = "enter"
  /\ IF par.k = "many" THEN Continue(Ret(acc, LoopMemory), remaining)
     ELSE \E r \in {Run(IF par.k = "many1" THEN par.p ELSE par.p1,
                        remaining, LoopMemory)} :
            IF r.st = "ok"
            THEN Continue(Call2(par.f, acc, r.val, r.mem), r.rest)
            ELSE IF r.st = "soft" /\ par.k = "separated_by_val"
              THEN Leave(Ok(acc, remaining, r.mem))
            ELSE Leave(r)
  /\ UNCHANGED <<input, doc, szst, S, bdst, hw, oob, cur, last, nops, lit,
                 nres, par, point, utf8, count>>

\* the body of while (!s.empty())
Iterate ==
  /\ pc = "loop"
  /\ remaining # <<>>
  /\ \E r \in {Run(LoopBody(par), remaining, LoopMemory)} :
       IF r.st = "ok" THEN Continue(Call2(par.f, acc, r.val, r.mem), r.rest)
       ELSE IF r.st = "soft" THEN Leave(Ok(acc, remaining, r.mem))
       ELSE Leave(r)
  /\ UNCHANGED <<input, doc, szst, S, bdst, hw, oob, cur, last, nops, lit,
                 nres, par, point, utf8, count>>

\* return cx::make_pair(init, s); after the loop
Exhausted ==
  /\ pc = "loop"
  /\ remaining = <<>>
  /\ Leave(Ok(acc, remaining, LoopMemory))
  /\ UNCHANGED <<input, doc, szst, S, bdst, hw, oob, cur, last, nops, lit,
                 nres, par, point, utf8, count>>

NextLoop == Enter \/ Iterate \/ Exhausted

SpecLoop == InitLoop /\ [][NextLoop]_vars

\* The program runs on: a parser that has not returned takes its next step.
\* Enter, Iterate and Exhausted between them leave no state with
\* pc # "returned" without a step, and the steps of SpecLoop are theirs
\* alone; the first disjunct below, a bare step to "returned", is enabled in
\* exactly those states and says so without running the parser when the
\* condition is evaluated.
SpecLoopFair ==
  /\ SpecLoop
  /\ WF_vars(\/ /\ pc # "returned"
                /\ pc' = "returned"
                /\ UNCHANGED <<input, doc, szst, S, bdst, hw, v, s, wlog, oob,
                               cur, last, nops, lit, nres, par, pres, point,
                               utf8, count, remaining, acc>>
             \/ NextLoop)

(***************************************************************************)
(* Properties.                                                             *)
(***************************************************************************)
BuildRan == bdst # "none"

\* C1: whenever the sizing pass accepted the input, the build pass on the
\* same input succeeds, its high-water node index equals num_objects, the
\* string buffer holds exactly string_size bytes, and no write went to an
\* arena index >= num_objects or past the string capacity.
C1_SizingBoundsBuild ==
  (BuildRan /\ szst = "ok") =>
    /\ bdst = "ok"
    /\ pc = "done"
    /\ hw = S.num_objects
    /\ Len(s) = S.string_size
    /\ ~oob
    /\ \A j \in 1..Len(wlog) : wlog[j].idx < S.num_objects

\* an array nested MaxDepth deep and an array MaxWidth wide, each sized and
\* then built
C1_Witness ==
  /\ pc = "done"
  /\ szst = "ok"
  /\ bdst = "ok"
  /\ \/ doc = Deep(MaxDepth) /\ hw = MaxDepth + 1
     \/ doc = Wide(MaxWidth) /\ hw = MaxWidth + 1

\* member j of the object t is the first one written under its key
FirstOfKey(t, j) ==
  \A k \in 1..(j - 1) : StrBytes(t.keys[k]) # StrBytes(t.keys[j])

\* navigating the built document from node i with const accessors finds the
\* tree t: its tag, its payload, its elements in order, its members by key
RECURSIVE Match(_, _)
Match(t, i) ==
  LET h == [index |-> i, rw |-> FALSE] IN
  CASE t.k = "bool" ->
         LET r == proxy_to_Boolean(v, S.num_objects, h) IN
         r.st = "ok" /\ r.bool = t.b
    [] t.k = "null" ->
         LET r == proxy_is_Null(v, S.num_objects, h) IN r.st = "ok" /\ r.bool
    [] t.k = "num" ->
         LET r == proxy_to_Number(v, S.num_objects, h) IN
         r.st = "ok" /\ r.num = LiteralValue(t.lit)
    [] t.k = "str" ->
         LET r == proxy_to_String(v, s, S.num_objects, h) IN
         r.st = "ok" /\ r.bytes = StrBytes(t.str)
    [] t.k = "arr" ->
         LET r == proxy_array_Size(v, S.num_objects, h) IN
         /\ r.st = "ok"
         /\ r.size = Len(t.items)
         /\ \A j \in 1..Len(t.items) :
              LET e == array_subscript(v, S.num_objects, h, j - 1) IN
              e.st = "ok" /\ Match(t.items[j], e.index)
    [] t.k = "obj" ->
         LET r == proxy_object_Size(v, S.num_objects, h) IN
         /\ r.st = "ok"
         /\ r.size = Len(t.items)
         /\ \A j \in 1..Len(t.items) :
              FirstOfKey(t, j) =>
                LET e == object_subscript(v, s, S.num_objects, h,
                                          StrBytes(t.keys[j])) IN
                e.st = "ok" /\ Match(t.items[j], e.index)
    [] OTHER -> FALSE

Built == pc = "done" /\ szst = "ok" /\ nops = 0

\* C2: round trip: after sizing and building a document, navigating from
\* node 0 along every path of array indices and object keys reaches a node
\* whose tag and payload are the value written at that path in the text.
C2_RoundTrip == (Built /\ doc # NoDoc) => Match(doc, 0)

\* the last call was op, made on a node inside the arena that had tag t
CalledOn(op, t) == last.op = op /\ last.pretype = t /\ last.st # "none"

\* C3: operator[](idx) on an Array node with view {offset, extent} returns
\* the handle at index offset + idx when idx < extent and fails with "Index
\* past end of array" for every idx >= extent, idx = extent included.
C3_IndexBounds ==
  CalledOn("index", "Array") =>
    LET ext == v[last.from] IN
    IF last.arg < ext.extent
    THEN last.st = "ok" /\ last.index = ext.offset + last.arg
    ELSE last.st = "throw" /\ last.msg = "Index past end of array"

\* a key of the object node n: the decoded bytes kept for the key node i
KeyBytes(i) == string_view_of(s, v[i])

KeyNodes(n) == {i \in n.offset..(n.offset + n.extent - 1) : (i - n.offset) % 2 = 0}

KeysIntact(n) ==
  \A i \in KeyNodes(n) :
    i < S.num_objects /\ v[i].type = "String" /\ in_string_storage(s, v[i])

\* C4: operator[](key) on an Object node returns the handle right after the
\* first key node, in storage order, whose decoded bytes equal the argument
\* byte for byte; fails with "Key not found in object", handing out no
\* handle, when no key matches; and fails with "Incorrect type" when the
\* node is not an Object.
C4_KeyLookup ==
  (last.op = "key" /\ last.pretype # "outside") =>
    IF last.pretype = "Object"
    THEN LET n == v[last.from]
             hits == {i \in KeyNodes(n) : KeyBytes(i) = last.key}
         IN KeysIntact(n) =>
              IF hits = {}
              THEN last.st = "throw" /\ last.msg = "Key not found in object"
              ELSE /\ last.st = "ok"
                   /\ last.index = 1 + CHOOSE i \in hits : \A k \in hits : i <= k
    ELSE last.st = "throw" /\ last.msg = "Incorrect type"

\* the tag each typed accessor asks for
TypedOps ==
  {"to_Boolean", "wrapper.to_Boolean", "to_Number", "wrapper.to_Number",
   "to_String", "index", "key"}

Wanted(op) ==
  CASE op \in {"to_Boolean", "wrapper.to_Boolean"} -> "Boolean"
    [] op \in {"to_Number", "wrapper.to_Number"} -> "Number"
    [] op = "to_String" -> "String"
    [] op = "index" -> "Array"
    [] op = "key" -> "Object"

\* C5: to_Boolean, to_Number, to_String, array indexing and key lookup on a
\* node whose tag is not the requested one fail with "Incorrect type" and
\* give no payload, through const and mutable handles and wrappers alike.
C5_TypeMismatch ==
  (/\ last.op \in TypedOps
   /\ last.pretype # "outside"
   /\ last.pretype # Wanted(last.op)) =>
    last.st = "throw" /\ last.msg = "Incorrect type"

\* C6: accessor calls on a built document leave every arena node's tag and
\* payload and every string byte as they were, whatever the type of the
\* node they are made on.
C6_ReadOnly == [][(pc = "done" /\ pc' = "done") => (v' = v /\ s' = s)]_vars

Whitespace == {" ", "\t", "\n", "\r"}

\* the first character of the text that is not whitespace is [ or {
RECURSIVE Opens(_)
Opens(text) ==
  /\ text # <<>>
  /\ IF Head(text) \in Whitespace THEN Opens(Tail(text))
     ELSE Head(text) \in {"[", "{"}

RECURSIVE NoSpaces(_)
NoSpaces(text) ==
  IF text = <<>> THEN <<>>
  ELSE IF Head(text) = " " THEN NoSpaces(Tail(text))
  ELSE <<Head(text)>> \o NoSpaces(Tail(text))

\* the well-formed arrays and objects that MaxTokens + 1 tokens can spell,
\* and more
SmallLeaves ==
  {TNum(One), TNum(Lit(FALSE, <<1, 1>>, <<>>)), TBool(TRUE),
   TStr(<<PieceA>>), TStr(<<>>), TArr(<<>>), TObj(<<>>, <<>>)}

SmallDocs ==
  {TArr(items) : items \in UNION {[1..n -> SmallLeaves] : n \in 0..2}}
  \cup {TObj(<<>>, <<>>)}
  \cup {TObj(<<<<PieceA>>>>, <<x>>) : x \in SmallLeaves}

WellFormedTexts == {NoSpaces(Render(t)) : t \in SmallDocs}

\* the part of the text the sizing pass consumed
Consumed(text) ==
  LET r == sizes_parse(text) IN
  SubSeq(text, 1, Len(text) - Len(r.rest))

\* C7: each of the inputs {, [, {"a", {1, {"a":1 and [1,] ends the sizing
\* pass with a hard failure; an input that opens a [ or { either is sized,
\* and then what was consumed is a well-formed array or object, or ends the
\* sizing pass with a hard failure, never with a soft one; and after a hard
\* failure the program has stopped with no arena, no string buffer and no
\* handle.
C7_MalformedAborts ==
  /\ (input \in Malformed /\ szst # "none") => szst = "hard"
  /\ (Opens(input) /\ szst # "none") => szst \in {"ok", "hard"}
  /\ (Opens(input) /\ szst = "ok" /\ pc = "sized") =>
       \/ doc # NoDoc /\ Consumed(input) = Render(doc)
       \/ doc = NoDoc /\ NoSpaces(Consumed(input)) \in WellFormedTexts
  /\ szst = "hard" =>
       pc = "aborted" /\ bdst = "none" /\ v = <<>> /\ s = <<>> /\ last = NoCall

\* [1,] was given to the sizing pass, which threw
C7_Witness ==
  input = <<"[", "1", ",", "]">> /\ szst = "hard" /\ pc = "aborted"

\* C8: a top-level parse failure yields no value: when the sizing parse
\* returns no result, sizes() yields no sizes and no value_wrapper is made;
\* when the build parse inside construct fails, the caller gets no document.
C8_FailureYieldsNoValue ==
  /\ szst \in {"soft", "hard"} => pc \notin {"sized", "done"}
  /\ bdst \in {"soft", "hard"} => pc # "done"

\* the build pass alone on the text, in storage no text can outgrow
BuildAlone(text) == construct(text, Len(text) + 1, Len(text) + 1)

\* C9: on every input the sizing pass and the build pass end the same way:
\* both accept, both fail softly, or both abort.
C9_FailIdentically ==
  (szst # "none" /\ bdst = "none") => BuildAlone(input).st = szst

\* C10: number_parser gives every literal digits.d1...dk, with or without
\* an exponent, the value in which each digit counts by its position: the
\* integer part plus the sum of d_i * 10^-i, times 10^exponent.
C10_FractionByPosition ==
  (pc = "parsed" /\ ~lit.neg) =>
    nres.st = "ok" /\ nres.rest = <<>> /\ nres.val = LiteralValue(lit)

\* C11: for every literal with a leading '-', number_parser yields the
\* negation of what it yields for the same literal without the '-': the
\* sign covers the integer part and the fraction alike.
C11_SignCoversFraction ==
  (pc = "parsed" /\ lit.neg) =>
    \E r \in {Run(number_parser, Tail(input), Memory(0, 0, 0))} :
      /\ r.st = "ok"
      /\ nres.st = "ok"
      /\ nres.rest = r.rest
      /\ nres.val = [r.val EXCEPT !.m = 0 - @]

\* the grammar -?(0|[1-9][0-9]*)(.[0-9]+)?([eE][+-]?[0-9]+)? of a number
IsDigitRun(t) == t # <<>> /\ \A j \in 1..Len(t) : t[j] \in Digits
IsInteger(t) == t = <<"0">> \/ (IsDigitRun(t) /\ t[1] # "0")
IsFraction(t) == t # <<>> /\ t[1] = "." /\ IsDigitRun(Tail(t))
IsExponent(t) ==
  /\ t # <<>>
  /\ t[1] \in {"e", "E"}
  /\ \/ IsDigitRun(Tail(t))
     \/ Len(t) >= 2 /\ t[2] \in {"+", "-"} /\ IsDigitRun(Tail(Tail(t)))
IsNumberText(t) ==
  \E a \in 0..Len(t), b \in 0..Len(t), c \in 0..Len(t) :
    /\ a <= b /\ b <= c
    /\ SubSeq(t, 1, a) \in {<<>>, <<"-">>}
    /\ IsInteger(SubSeq(t, a + 1, b))
    /\ b = c \/ IsFraction(SubSeq(t, b + 1, c))
    /\ c = Len(t) \/ IsExponent(SubSeq(t, c + 1, Len(t)))
NumberPrefixes(t) == {n \in 0..Len(t) : IsNumberText(SubSeq(t, 1, n))}
Longest(ns) == CHOOSE n \in ns : \A k \in ns : k <= n

\* C12: number_parser consumes exactly the longest prefix of the input
\* that is a number of the grammar and fails when no prefix is one: a text
\* starting with '.' is rejected, no digit is taken after a leading 0, and
\* a '.' or an 'e' that no digit run follows stays in the input.
C12_LongestNumberPrefix ==
  (pc = "applied" /\ par = number_parser) =>
    IF NumberPrefixes(input) = {} THEN pres.st = "soft"
    ELSE /\ pres.st = "ok"
         /\ pres.rest = Suffix(input, Longest(NumberPrefixes(input)) + 1)

\* 0.e was parsed as 0, and .e was left
C12_Witness ==
  /\ par = number_parser
  /\ input = <<"0", ".", "e">>
  /\ pres.st = "ok"
  /\ pres.rest = <<".", "e">>

\* the value of a hex digit and of a run of hex digits, read off the digits
HexValue(c) ==
  CHOOSE n \in 0..15 :
    c \in {<<"0", "1", "2", "3", "4", "5", "6", "7", "8", "9",
             "a", "b", "c", "d", "e", "f">>[n + 1],
           <<"0", "1", "2", "3", "4", "5", "6", "7", "8", "9",
             "A", "B", "C", "D", "E", "F">>[n + 1]}

RECURSIVE CodePoint(_)
CodePoint(ds) ==
  IF ds = <<>> THEN 0
  ELSE (CodePoint(SubSeq(ds, 1, Len(ds) - 1)) * 16) + HexValue(ds[Len(ds)])

\* UTF-8 of a code point of the basic plane: 0xxxxxxx, 110xxxxx 10xxxxxx,
\* 1110xxxx 10xxxxxx 10xxxxxx
Utf8(cp) ==
  CASE cp <= 127 -> <<cp>>
    [] cp > 127 /\ cp <= 2047 -> <<192 + (cp \div 64), 128 + (cp % 64)>>
    [] cp > 2047 ->
         <<224 + (cp \div 4096), 128 + ((cp \div 64) % 64), 128 + (cp % 64)>>

\* the number of leading characters of t that are in chars
LeadingRun(chars, t) ==
  Longest({n \in 0..Len(t) : \A j \in 1..n : t[j] \in chars})

IsEscapeU(t) == Len(t) >= 2 /\ t[1] = "\\" /\ t[2] = "u"

\* C13: on \uXXXX, in upper or lower case, unicode_point_parser consumes
\* the six characters and yields the UTF-8 encoding of the code point XXXX:
\* one byte up to 0x7F, two up to 0x7FF, three up to 0xFFFF.
C13_UnicodeEscape ==
  (/\ pc = "applied"
   /\ par = unicode_point_parser
   /\ IsEscapeU(input)
   /\ LeadingRun(HexDigits, Suffix(input, 3)) >= 4) =>
    /\ pres.st = "ok"
    /\ pres.rest = Suffix(input, 7)
    /\ pres.val = Utf8(CodePoint(SubSeq(input, 3, 6)))
    /\ Len(pres.val) = (IF CodePoint(SubSeq(input, 3, 6)) <= 127 THEN 1
                        ELSE IF CodePoint(SubSeq(input, 3, 6)) <= 2047 THEN 2
                        ELSE 3)

\* the snowman: \u2603 gave E2 98 83
C13_Witness ==
  /\ par = unicode_point_parser
  /\ input = <<"\\", "u", "2", "6", "0", "3">>
  /\ pres.st = "ok"
  /\ pres.val = <<226, 152, 131>>
  /\ pres.rest = <<>>

\* the characters a one-character parser accepts
Accepted(p) ==
  CASE p.k = "char" -> {p.c}
    [] p.k = "one_of" -> p.chars
    [] OTHER -> {}

\* C14: exactly_n(p, n, ..) succeeds only when p matches n times in a
\* row and fails when p fails before the n-th repetition; so \u followed
\* by fewer than four hex digits is not accepted by unicode_point_parser.
C14_ExactlyNTimes ==
  pc = "applied" =>
    /\ par.k = "exactly_n" =>
         (pres.st = "ok" <=> LeadingRun(Accepted(par.p), input) >= par.n)
    /\ (/\ par = unicode_point_parser
        /\ IsEscapeU(input)
        /\ LeadingRun(HexDigits, Suffix(input, 3)) < 4) => pres.st = "soft"

\* what a parser of one character, of a word, or a failing one is to
\* return on a text
Expected(p, t) ==
  CASE p.k \in {"char", "one_of"} ->
         IF t # <<>> /\ t[1] \in Accepted(p)
         THEN [st |-> "ok", val |-> Ord[t[1]], rest |-> Tail(t)]
         ELSE [NoOutcome EXCEPT !.st = "soft"]
    [] p.k = "string" ->
         IF Len(t) >= Len(p.str) /\ (\A j \in 1..Len(p.str) : t[j] = p.str[j])
         THEN [st |-> "ok", val |-> p.str, rest |-> Suffix(t, Len(p.str) + 1)]
         ELSE [NoOutcome EXCEPT !.st = "soft"]
    [] p.k = "fail" -> [NoOutcome EXCEPT !.st = "soft"]
    [] p.k = "fail_with" -> [NoOutcome EXCEPT !.st = "hard"]

\* C15: p1 | p2 returns p1's result whenever p1 succeeds, without running
\* p2; when p1 fails it returns exactly what p2 returns on the original
\* input; it fails exactly when both fail.
C15_Alternation ==
  (pc = "applied" /\ par.k = "alt") =>
    /\ Expected(par.p1, input).st = "ok" => pres = Expected(par.p1, input)
    /\ Expected(par.p1, input).st = "soft" => pres = Expected(par.p2, input)
    /\ pres.st = "soft" <=> (/\ Expected(par.p1, input).st = "soft"
                             /\ Expected(par.p2, input).st = "soft")

\* 'a' | fail('a', [] { throw ..; }) on ab: 'a' matched and nothing was
\* thrown
C15_Witness ==
  /\ par = alt(make_char_parser("a"), fail_with("a", [fn |-> "throw"]))
  /\ input = <<"a", "b">>
  /\ pres = [st |-> "ok", val |-> Ord["a"], rest |-> <<"b">>]

IsLt(p) == p \in Sequenced /\ p = lt(p.p1, p.p2)
IsGt(p) == p \in Sequenced /\ p = gt(p.p1, p.p2)

\* what p1 followed by p2 on p1's residual is to return, with the value
\* of the first or of the second parser
InSequence(p1, p2, t, which) ==
  LET e1 == Expected(p1, t)
      e2 == Expected(p2, e1.rest)
  IN IF e1.st # "ok" THEN [NoOutcome EXCEPT !.st = e1.st]
     ELSE IF e2.st # "ok" THEN [NoOutcome EXCEPT !.st = e2.st]
     ELSE [st |-> "ok", val |-> IF which = 1 THEN e1.val ELSE e2.val,
           rest |-> e2.rest]

\* C16 as claimed: sequencing runs p1, then p2 on p1's residual, fails if
\* either fails and returns p2's residual; p1 < p2 returns the value of
\* the first parser, p1, and p1 > p2 the value of the second parser, p2.
C16_FirstForLess ==
  pc = "applied" =>
    /\ IsLt(par) => pres = InSequence(par.p1, par.p2, input, 1)
    /\ IsGt(par) => pres = InSequence(par.p1, par.p2, input, 2)

\* C16 as amended: sequencing runs p1, then p2 on p1's residual, fails if
\* either fails and returns p2's residual; p1 < p2 returns the value of
\* the second parser, p2, and p1 > p2 the value of the first parser, p1.
C16_SecondForLess ==
  pc = "applied" =>
    /\ IsLt(par) => pres = InSequence(par.p1, par.p2, input, 2)
    /\ IsGt(par) => pres = InSequence(par.p1, par.p2, input, 1)

\* 'a' < 'b' on ab returned 'b'
C16_Witness ==
  /\ par = lt(make_char_parser("a"), make_char_parser("b"))
  /\ input = <<"a", "b">>
  /\ pres = [st |-> "ok", val |-> Ord["b"], rest |-> <<>>]

\* std::plus<>{} and the digit accumulator over the characters cs, from
\* the left
RECURSIVE Folded(_, _, _)
Folded(f, init, cs) ==
  IF cs = <<>> THEN init
  ELSE Folded(f,
              IF f.fn = "plus" THEN init + Ord[Head(cs)]
              ELSE (10 * init) + (Ord[Head(cs)] - 48),
              Tail(cs))

\* C17: many never fails and yields init with the input untouched when p
\* matches zero times; many1 fails exactly when the first application of
\* p fails; both stop at the first failing application and return the fold
\* of the earlier results, with the residual starting where the failing
\* application started.
C17_ManyAndMany1 ==
  (pc = "applied" /\ par.k \in {"many", "many1"}) =>
    \E n \in {LeadingRun(Accepted(par.p), input)} :
      IF par.k = "many1" /\ n = 0 THEN pres.st = "soft"
      ELSE /\ pres.st = "ok"
           /\ pres.val = Folded(par.f, par.init, SubSeq(input, 1, n))
           /\ pres.rest = Suffix(input, n + 1)
           /\ n = 0 => pres.val = par.init /\ pres.rest = input

\* many1 of 'a' stopped at the b of aab with the fold of two results
C17_Witness ==
  /\ par = many1(make_char_parser("a"), 0, [fn |-> "plus"])
  /\ input = <<"a", "a", "b">>
  /\ pres = [st |-> "ok", val |-> 2 * Ord["a"], rest |-> <<"b">>]

\* the items of the longest run  item , item , .. , item  that starts t
ItemCount(chars, t) ==
  Longest({n \in 0..((Len(t) + 1) \div 2) :
             \A j \in 1..n :
               t[(2 * j) - 1] \in chars /\ (j > 1 => t[(2 * j) - 2] = ",")})

Items(t, n) == [j \in 1..n |-> t[(2 * j) - 1]]

\* the init of a separated_by: a value, or the callable's return value
InitOf(p) ==
  IF p.k = "separated_by_val" THEN p.init
  ELSE IF p.init.fn = "one" THEN 1 ELSE 0

\* what separated_by with an init is to return when its first item is
\* there: the fold of the items, and the text after the last item
FoldOfItems(p, t, n) ==
  [st |-> "ok", val |-> Folded(p.f, InitOf(p), Items(t, n)),
   rest |-> Suffix(t, 2 * n)]

\* C18 as claimed: separated_by(p, sep, init, f) parses one or more p's
\* separated by sep: it fails when the first p fails, and otherwise returns
\* the fold of the p results and leaves a separator that no successful p
\* follows unconsumed.
C18_OneOrMore ==
  (pc = "applied" /\ par.k \in {"separated_by_init", "separated_by_val"}) =>
    \E n \in {ItemCount(Accepted(par.p1), input)} :
      IF n = 0 THEN pres.st = "soft" ELSE pres = FoldOfItems(par, input, n)

\* C18 as amended: separated_by(p, sep, init, f) and separated_by_val parse
\* zero or more p's separated by sep: when the first p fails they succeed
\* with init and the input untouched, and otherwise they return the fold
\* of the p results and leave a separator that no successful p follows
\* unconsumed; the form without init, separated_by(p, sep, f), is the one
\* that fails when the first p fails.
C18_ZeroOrMore ==
  pc = "applied" =>
    \E n \in {IF par.k \in {"separated_by", "separated_by_init",
                              "separated_by_val"}
               THEN ItemCount(Accepted(par.p1), input) ELSE 0} :
      /\ par.k \in {"separated_by_init", "separated_by_val"} =>
           pres = IF n = 0 THEN [st |-> "ok", val |-> InitOf(par), rest |-> input]
                  ELSE FoldOfItems(par, input, n)
      /\ par.k = "separated_by" =>
           pres = IF n = 0 THEN [NoOutcome EXCEPT !.st = "soft"]
                  ELSE [st |-> "ok",
                        val |-> Folded(par.f, Ord[input[1]],
                                       Tail(Items(input, n))),
                        rest |-> Suffix(input, 2 * n)]

\* a,a, gave the fold of two items and left the second comma
C18_Witness ==
  /\ par = separated_by_init(make_char_parser("a"), make_char_parser(","),
                             [fn |-> "one"], [fn |-> "plus"])
  /\ input = <<"a", ",", "a", ",">>
  /\ pres = [st |-> "ok", val |-> 1 + (2 * Ord["a"]), rest |-> <<",">>]

RECURSIVE SumOf(_)
SumOf(ns) == IF ns = <<>> THEN 0 ELSE Head(ns) + SumOf(Tail(ns))

RECURSIVE HasObject(_)
HasObject(t) ==
  \/ t.k = "obj"
  \/ t.k = "arr" /\ \E j \in 1..Len(t.items) : HasObject(t.items[j])

\* the nodes of a value: itself, its elements, and for each member its key
\* and its value
RECURSIVE NodeCount(_)
NodeCount(t) ==
  CASE t.k = "arr" ->
         1 + SumOf([j \in 1..Len(t.items) |-> NodeCount(t.items[j])])
    [] t.k = "obj" ->
         1 + SumOf([j \in 1..Len(t.items) |-> 1 + NodeCount(t.items[j])])
    [] OTHER -> 1

\* the decoded bytes of the strings and keys of a value
RECURSIVE StringBytes(_)
StringBytes(t) ==
  CASE t.k = "str" -> Len(StrBytes(t.str))
    [] t.k = "arr" ->
         SumOf([j \in 1..Len(t.items) |-> StringBytes(t.items[j])])
    [] t.k = "obj" ->
         SumOf([j \in 1..Len(t.items) |->
                  Len(StrBytes(t.keys[j])) + StringBytes(t.items[j])])
    [] OTHER -> 0

Sized == szst = "ok" /\ doc # NoDoc

\* C19: sizing composes additively for the values that are not objects:
\* true, false, null and a number yield (1, 0), a string yields (1, its
\* decoded bytes), and an array yields 1 plus the sum of its elements' node
\* counts and the sum of its elements' string bytes.
C19_SizesOfArrays ==
  (Sized /\ ~HasObject(doc)) =>
    /\ S = Sizes(NodeCount(doc), StringBytes(doc))
    /\ doc.k \in {"bool", "null", "num"} => S = Sizes(1, 0)
    /\ doc.k = "str" => S = Sizes(1, Len(StrBytes(doc.str)))

\* ["a","a"] was sized as three nodes and two bytes
C19_Witness ==
  /\ doc = TArr(<<TStr(<<PieceA>>), TStr(<<PieceA>>)>>)
  /\ szst = "ok"
  /\ S = Sizes(3, 2)

\* C20 as claimed: for every object the sizing pass yields the node count
\* 1 + 2 * member_count and the string bytes of its keys plus those of its
\* member values.
C20_TwoNodesPerMember ==
  (Sized /\ doc.k = "obj") =>
    S = Sizes(1 + (2 * Len(doc.items)), StringBytes(doc))

\* C20 as amended: for every object the sizing pass yields the node count
\* 1 + member_count + the sum of the member values' node counts, which is
\* 1 + 2 * member_count when every member value is a single node, and the
\* string bytes of its keys plus those of its member values.
C20_KeyAndValueNodes ==
  (Sized /\ doc.k = "obj") =>
    /\ S = Sizes(1 + Len(doc.items)
                   + SumOf([j \in 1..Len(doc.items) |-> NodeCount(doc.items[j])]),
                 StringBytes(doc))
    /\ (\A j \in 1..Len(doc.items) : doc.items[j].k \notin {"arr", "obj"}) =>
         S.num_objects = 1 + (2 * Len(doc.items))

\* {"a":[1]} was sized as four nodes: the object, the key, the array and
\* its element
C20_Witness ==
  /\ doc = TObj(<<<<PieceA>>>>, <<TArr(<<TNum(One)>>)>>)
  /\ szst = "ok"
  /\ S = Sizes(4, 1)

\* C21: a failing parser has no side effects: whenever a parser of the
\* build pass (string_parser, key_value_extent_parser, array_parser,
\* object_parser, value_parser) returns failure, the arena nodes and the
\* string buffer are exactly as they were before it was invoked.
C21_FailureLeavesNoTrace ==
  (pc = "applied" /\ par \in Builders /\ pres.st # "ok") =>
    v = Arena(input).v /\ s = <<>>

\* C22: after a successful build every String node's view lies within the
\* string buffer (offset + extent <= its length) and every Array or Object
\* node's view lies within the arena (offset + extent <= its length), the
\* empty strings, keys, arrays and objects included.
C22_ViewsInBounds ==
  (bdst = "ok" /\ szst = "ok") =>
    \A i \in 0..(hw - 1) :
      /\ v[i].type = "String" => v[i].offset <= Len(s) - v[i].extent
      /\ v[i].type \in {"Array", "Object"} =>
           v[i].offset <= S.num_objects - v[i].extent

\* the tag the build gives the node of the value t
TagOf(t) ==
  CASE t.k = "bool" -> "Boolean"
    [] t.k = "null" -> "Null"
    [] t.k = "num" -> "Number"
    [] t.k = "str" -> "String"
    [] t.k = "arr" -> "Array"
    [] t.k = "obj" -> "Object"

\* the node i holds the value t, and every object below it is laid out as
\* key node, value node, key node, value node, ... in the order of the text
RECURSIVE Alternating(_, _)
Alternating(t, i) ==
  /\ v[i].type = TagOf(t)
  /\ t.k = "arr" =>
       \A j \in 1..Len(t.items) :
         Alternating(t.items[j], v[i].offset + (j - 1))
  /\ t.k = "obj" =>
       /\ v[i].extent % 2 = 0
       /\ v[i].extent \div 2 = Len(t.items)
       /\ \E r \in {proxy_object_Size(v, S.num_objects,
                                      [index |-> i, rw |-> FALSE])} :
            r.st = "ok" /\ r.size = Len(t.items)
       /\ \A j \in 1..Len(t.items) :
            /\ v[v[i].offset + 2 * (j - 1)].type = "String"
            /\ string_view_of(s, v[v[i].offset + 2 * (j - 1)])
                 = StrBytes(t.keys[j])
            /\ Alternating(t.items[j], v[i].offset + 2 * (j - 1) + 1)

\* C23: after a successful build every Object node has an even extent, the
\* nodes at the even positions of its range are the String nodes of the keys,
\* each followed by the node of that member's value, in the order of the
\* text, and object_Size is extent / 2, the number of members written.
C23_KeyValuePairs ==
  (Built /\ bdst = "ok" /\ doc # NoDoc) =>
    /\ Alternating(doc, 0)
    /\ \A i \in 0..(hw - 1) :
         v[i].type = "Object" =>
           /\ v[i].extent % 2 = 0
           /\ \A j \in 0..(v[i].extent - 1) :
                j % 2 = 0 => v[v[i].offset + j].type = "String"

\* an object of two members under one key and an object inside an object,
\* both built
C23_Witness ==
  /\ Built /\ bdst = "ok"
  /\ \/ /\ doc = TObj(<<<<PieceA>>, <<PieceA>>>>, <<TNum(One), TBool(TRUE)>>)
        /\ v[0].extent = 4
     \/ /\ doc = TObj(<<<<PieceA>>>>, <<TObj(<<<<PieceB>>>>, <<TNull>>)>>)
        /\ v[2].type = "Object"

\* the nodes before child j of the value t when the nodes are numbered in
\* pre-order
RECURSIVE Before(_, _)
Before(t, j) ==
  IF j = 1 THEN 0
  ELSE Before(t, j - 1) + NodeCount(t.items[j - 1])
       + (IF t.k = "obj" THEN 1 ELSE 0)

\* the value t sits at node i with its subtree numbered in pre-order
RECURSIVE PreOrder(_, _)
PreOrder(t, i) ==
  /\ v[i].type = TagOf(t)
  /\ (t.k \in {"arr", "obj"} /\ t.items # <<>>) => v[i].offset = i + 1
  /\ t.k = "arr" =>
       \A j \in 1..Len(t.items) : PreOrder(t.items[j], i + 1 + Before(t, j))
  /\ t.k = "obj" =>
       \A j \in 1..Len(t.items) :
         /\ v[i + 1 + Before(t, j)].type = "String"
         /\ PreOrder(t.items[j], i + 2 + Before(t, j))

\* C24 as claimed: the build numbers the nodes in one pre-order sequence, a
\* node followed at once by its first child's whole subtree and then by the
\* next child's, and writes no arena node a second time.
C24_PreOrderWriteOnce ==
  (Built /\ bdst = "ok" /\ doc # NoDoc) =>
    /\ PreOrder(doc, 0)
    /\ \A j, k \in 1..Len(wlog) : wlog[j].idx = wlog[k].idx => j = k

\* The high-water mark after the value t at node i and everything below it
\* is laid out from the high-water mark h, or -1 if the arena differs: the
\* children of a container take the indices h, h + 1, ... together, and the
\* nodes below child j follow those below the children before it.
RECURSIVE Laid(_, _, _)
RECURSIVE LaidFrom(_, _, _, _)
LaidFrom(t, base, j, h) ==
  IF h < 0 \/ j > Len(t.items) THEN h
  ELSE IF t.k = "obj"
    THEN IF v[base + 2 * (j - 1)].type # "String" THEN -1
         ELSE LaidFrom(t, base, j + 1,
                       Laid(t.items[j], base + 2 * (j - 1) + 1, h))
  ELSE LaidFrom(t, base, j + 1, Laid(t.items[j], base + (j - 1), h))
Laid(t, i, h) ==
  IF v[i].type # TagOf(t) THEN -1
  ELSE IF t.k = "arr"
    THEN IF v[i].offset # h \/ v[i].extent # Len(t.items) THEN -1
         ELSE LaidFrom(t, h, 1, h + Len(t.items))
  ELSE IF t.k = "obj"
    THEN IF v[i].offset # h \/ v[i].extent # 2 * Len(t.items) THEN -1
         ELSE LaidFrom(t, h, 1, h + 2 * Len(t.items))
  ELSE h

\* C24: the build hands out the node indices in one increasing sequence, the
\* children of a container taking consecutive indices at the high-water mark
\* and the nodes below a child following all its siblings; a node is written
\* at most twice, as an Unparsed placeholder and then finalised, and never
\* after it was finalised.
C24_ChildrenTogether ==
  (Built /\ bdst = "ok" /\ doc # NoDoc) =>
    /\ Laid(doc, 0, 1) = hw
    /\ \A j, k \in 1..Len(wlog) :
         (j < k /\ wlog[j].idx = wlog[k].idx) =>
           wlog[j].type = "Unparsed" /\ wlog[k].type # "Unparsed"

\* [[x],x] built: the element of the inner array comes after the inner
\* array's sibling, and the inner array's slot was written twice
C24_Witness ==
  /\ Built /\ bdst = "ok"
  /\ doc = TArr(<<TArr(<<TNull>>), TNull>>)
  /\ v[1].type = "Array" /\ v[1].offset = 3
  /\ \E j, k \in 1..Len(wlog) : j < k /\ wlog[j].idx = 1 /\ wlog[k].idx = 1

\* C25: after a build that returns success no node below the high-water
\* mark carries the Unparsed tag: every placeholder written in stage one of
\* an array or object was finalised afterwards.
C25_NoUnparsedLeft ==
  bdst = "ok" =>
    /\ \A i \in 0..(hw - 1) : v[i].type # "Unparsed"
    /\ \A j \in 1..Len(wlog) :
         wlog[j].type = "Unparsed" =>
           \E k \in (j + 1)..Len(wlog) :
             wlog[k].idx = wlog[j].idx /\ wlog[k].type # "Unparsed"

\* an object holding an array built: three placeholders were written
C25_Witness ==
  /\ bdst = "ok"
  /\ doc = TObj(<<<<PieceA>>>>, <<TArr(<<TBool(TRUE)>>)>>)
  /\ hw = 4
  /\ \E j, k \in 1..Len(wlog) :
       /\ wlog[j].type = "Unparsed" /\ wlog[j].idx = 2
       /\ wlog[k].type = "Unparsed" /\ wlog[k].idx = 3

\* the high-water mark before write j of the build: one past the highest
\* index written so far, node 0 being reserved for the document
Mark(j) ==
  LET written == {0} \cup {wlog[k].idx : k \in 1..(j - 1)} IN
  1 + CHOOSE a \in written : \A b \in written : b <= a

\* the write that finalises node a: the last one to it
Finalised(a) ==
  CHOOSE f \in 1..Len(wlog) :
    /\ wlog[f].idx = a
    /\ \A g \in (f + 1)..Len(wlog) : wlog[g].idx # a

\* C26: two-stage ordering.  When an array or object is finalised, the
\* placeholders of all its children (and the String nodes of its keys) have
\* just been written at consecutive indices starting at the high-water mark,
\* before any of them is finalised; the children are then finalised in
\* increasing index order, each at its reserved index; the high-water mark
\* never decreases, every write going to the mark itself or to an index
\* reserved before; and the children of a nested container take a fresh
\* range at the mark current when that container is finalised.
C26_TwoStages ==
  (Built /\ bdst = "ok") =>
    /\ hw = Mark(Len(wlog) + 1)
    /\ \A q \in 1..Len(wlog) :
         \/ wlog[q].idx = Mark(q) /\ wlog[q].type \in {"Unparsed", "String"}
         \/ wlog[q].idx < Mark(q) /\ wlog[q].type # "Unparsed"
    /\ \A q \in 1..Len(wlog) :
         wlog[q].type \in {"Array", "Object"} =>
           \E n \in {v[wlog[q].idx]} :
             /\ q > n.extent
             /\ n.offset = Mark(q - n.extent)
             /\ \A d \in 0..(n.extent - 1) :
                  /\ wlog[q - n.extent + d].idx = n.offset + d
                  /\ wlog[q - n.extent + d].type =
                       IF n.type = "Object" /\ d % 2 = 0 THEN "String"
                       ELSE "Unparsed"
                  /\ wlog[q - n.extent + d].type = "Unparsed" =>
                       Finalised(n.offset + d) > q
             /\ \A d, e \in 0..(n.extent - 1) :
                  (d < e /\ wlog[q - n.extent + d].type = "Unparsed"
                         /\ wlog[q - n.extent + e].type = "Unparsed") =>
                    Finalised(n.offset + d) < Finalised(n.offset + e)

\* [1,[true,false],[2,1]] built: the slots 1, 2, 3 are reserved first, the
\* first inner array takes 4 and 5 when it is finalised, the second 6 and 7
C26_Witness ==
  /\ Built /\ bdst = "ok"
  /\ doc = TArr(<<TNum(One), TArr(<<TBool(TRUE), TBool(FALSE)>>),
                  TArr(<<TNum(Two), TNum(One)>>)>>)
  /\ v[2].offset = 4 /\ v[3].offset = 6
  /\ Finalised(2) < Finalised(3)
  /\ Finalised(5) < Finalised(3)

\* C27: for every 32-bit code point, to_utf8_count returns the number of
\* bytes to_utf8 produces: 1 up to 0x7F, 2 up to 0x7FF, 3 up to 0xFFFF and 4
\* above.
C27_CountIsLength ==
  pc = "counted" =>
    /\ count = Len(utf8)
    /\ count = IF point <= 127 THEN 1
               ELSE IF point <= 2047 THEN 2
               ELSE IF point <= 65535 THEN 3
               ELSE 4

\* what the top-level parser of the build pass leaves of the text
BuildRest(text) ==
  Run(value_recur_value_parser(0, 1), text,
      with_known(extent_recur_array_parser, extent_recur_object_parser, text,
                 Memory(Len(text), Len(text) + 1, Len(text) + 1))).rest

\* C28: both passes parse only the first value of the input.  When a
\* complete value is followed by further bytes, the sizing pass succeeds
\* with the sizes of that value, the build pass succeeds, each leaves the
\* bytes after the value as its residual, which is dropped, and the document
\* built is the first value alone.
C28_FirstValueOnly ==
  (doc # NoDoc /\ input # Render(doc)) =>
    /\ Render(doc) \o sizes_parse(input).rest = input
    /\ Render(doc) \o BuildRest(input) = input
    /\ szst # "none" =>
         szst = "ok" /\ S = Sizes(NodeCount(doc), StringBytes(doc))
    /\ BuildRan =>
         /\ bdst = "ok"
         /\ hw = NodeCount(doc)
         /\ Len(s) = StringBytes(doc)
         /\ \A j \in 1..Len(s) : s[j] = Ord["a"]
         /\ \A i \in 0..Len(input) : i >= hw => v[i] = DefaultValue
    /\ Built => Match(doc, 0)

\* [1] false and true x, sized and built
C28_Witness ==
  /\ Built /\ bdst = "ok"
  /\ \/ /\ doc = TArr(<<TNum(One)>>)
        /\ input = Render(doc) \o <<" ", "f", "a", "l", "s", "e">>
        /\ hw = 2
     \/ /\ doc = TBool(TRUE)
        /\ input = Render(doc) \o <<" ", "x">>
        /\ hw = 1

\* the document is an object whose two members have the same key
Repeated ==
  /\ doc \in Objects
  /\ Len(doc.keys) = 2
  /\ doc.keys[1] = doc.keys[2]

\* C29: an object that repeats a key is accepted by both passes, every
\* member is stored (two nodes and the key's bytes for each occurrence), and
\* a lookup of the key in the built document returns the value of the first
\* occurrence; the later occurrence is never what a lookup by key returns.
C29_FirstOccurrence ==
  Repeated =>
    /\ szst # "none" =>
         /\ szst = "ok"
         /\ S = Sizes(5, 2 * Len(StrBytes(doc.keys[1]))
                         + StringBytes(doc.items[1])
                         + StringBytes(doc.items[2]))
    /\ BuildRan =>
         /\ bdst = "ok"
         /\ hw = 5
         /\ Len(s) = S.string_size
    /\ Built =>
         /\ v[0].type = "Object" /\ v[0].offset = 1 /\ v[0].extent = 4
         /\ v[1].type = "String" /\ v[3].type = "String"
         /\ string_view_of(s, v[1]) = StrBytes(doc.keys[1])
         /\ string_view_of(s, v[3]) = StrBytes(doc.keys[1])
         /\ v[2].type = TagOf(doc.items[1])
         /\ v[4].type = TagOf(doc.items[2])
    /\ (nops = 1 /\ last.op = "key") =>
         /\ last.index # 4
         /\ last.key = StrBytes(doc.keys[1]) =>
              last.st = "ok" /\ last.index = 2

\* {"a":1, "a":true} built and looked up under "a": the number is returned
C29_Witness ==
  /\ doc = TObj(<<<<PieceA>>, <<PieceA>>>>, <<TNum(One), TBool(TRUE)>>)
  /\ pc = "done" /\ nops = 1
  /\ last.op = "key" /\ last.key = <<Ord["a"]>>
  /\ last.st = "ok" /\ last.index = 2
  /\ v[4].type = "Boolean"

\* C30: every parse terminates.  Each loop of the grammar (whitespace,
\* digits, string characters, separator-then-element in the sizing, extent
\* and build passes) returns after finitely many steps, every iteration that
\* does not end the loop strictly shortens the remaining input, and every
\* span kept for the recursive value parse of the build pass is strictly
\* shorter than the text of the container it was read from.
C30_Terminates ==
  /\ [][(pc = "loop" /\ pc' = "loop") => Len(remaining') < Len(remaining)]_vars
  /\ [](\A i \in DOMAIN v :
          v[i].type = "Unparsed" => Len(v[i].unparsed) < Len(input) + 1)
  /\ <>(pc = "returned")

\* the elements 1 , [1] and true were read in two iterations of the
\* separator-then-element loop of the build pass
C30_Witness ==
  /\ pc = "returned"
  /\ par = separated_by_val(extent_parser, Separator, 1,
                            [fn |-> "store_Unparsed"])
  /\ input = <<"1", " ", ",", "[", "1", "]", ",", " ", "t", "r", "u", "e", "]">>
  /\ acc = 4
  /\ remaining = <<"]">>

=============================================================================
